---------------------------- MODULE Spec2Model ----------------------------
(***************************************************************************)
(* A model of the wikipedia-example ingestion pipeline:                    *)
(*   - the worker-pool BulkInserter and run() of src/src/indexer.rs,       *)
(*   - the promise-queue BulkInserter and main() of                        *)
(*     src/inserter/src/main.rs,                                           *)
(*   - the read_archive state machine of src/src/indexer.rs,               *)
(*   - the ArticleMap interface and article_uuid.                          *)
(* Each part has its own specification (SpecWP, SpecPQ, SpecRA, SpecAPI);  *)
(* the variables of the other parts stay at their initial values.          *)
(***************************************************************************)
EXTENDS Integers, Sequences, FiniteSets, TLC

(***************************************************************************)
(* Bounds of the model and scaled program constants.                       *)
(***************************************************************************)
\* Largest number of articles of a dispatched ArticleMap.
MaxArticles == 8
\* Largest number of links of a dispatched ArticleMap.
MaxLinks == 5
\* Workers spawned by BulkInserter::new (10 in the code, `for _ in 0..10`).
NumWorkers == 2
\* Capacity of the bounded channel (10 in the code, `bounded(10)`).
ChanCap == 1
\* REQUEST_BUFFER_SIZE of src/src/indexer.rs (10_000 in the code), scaled
\* down and kept even like the original.
REQUEST_BUFFER_SIZE == 4
\* REQUEST_BUFFER_SIZE of src/inserter/src/main.rs (10_000 in the code),
\* scaled down, kept even and larger than the two items of one article.
INS_REQUEST_BUFFER_SIZE == 4
\* PROMISE_BUFFER_SIZE of src/inserter/src/main.rs (10 in the code), scaled
\* down.
PROMISE_BUFFER_SIZE == 2

\* Largest number of page elements of an archive.
MaxPages == 2
\* Largest number of revision elements of one page.
MaxRevisions == 2
\* Largest number of text events inside the title and text elements of an
\* archive.
MaxTexts == 4
\* Largest number of text events of an archive that continue the text of a
\* title or body an earlier text event began.
MaxExtraTexts == 1
\* The step of the progress report of read_archive (1000 in the code),
\* scaled down.
PROGRESS_STEP == 2

VARIABLES
  \* ---- the ArticleMap handed to the dispatch phase ----
  am_n,          \* number of articles; article i has name i and uuid i
  am_k,          \* number of links: the first am_k pairs of LinkPairs(am_n)
  \* ---- worker-pool pipeline (src/src/indexer.rs) ----
  wp_phase,      \* position in run(): "articles", "links", "finished", "panicked"
  wp_pc,         \* position of the producer inside the BulkInserter calls
  wp_pos,        \* index of the next item of the phase to push
  wp_buf,        \* BulkInserter.buf
  wp_pending,    \* the batch a blocked requests.send(..) is holding
  wp_chan,       \* the queue of the async_channel
  wp_closed,     \* whether the channel is closed
  wp_workers,    \* worker i: [st, batch]
  wp_join,       \* index of the worker flush is awaiting
  wp_started,    \* history: batches passed to bulk_insert, in order
  wp_completed,  \* history: batches whose bulk_insert returned Ok
  \* ---- promise-queue pipeline (src/inserter/src/main.rs) ----
  pq_phase,      \* position in main(): "articles", "links", "finished", "failed"
  pq_pc,         \* position inside the BulkInserter calls
  pq_pos,        \* index of the next item of the phase to push
  pq_buf,        \* BulkInserter.buf
  pq_promises,   \* BulkInserter.promises: the requests sent and not awaited
  pq_sent,       \* history: the requests sent to the store, in order
  pq_acked,      \* history: the requests whose response was awaited with Ok
  \* ---- read_archive (src/src/indexer.rs) ----
  ra_pc,         \* "reading", "done" (Ok returned), "error" (Err returned),
                 \* "panicked" (a debug_assert! failed in a debug build)
  state,         \* ArchiveReadState
  src,           \* the title buffer
  content,       \* the body buffer
  uuids,         \* article_map.uuids: name -> uuid
  links,         \* article_map.links: uuid -> set of uuids
  clock,         \* the time and CONTEXT counter the next Uuid::new_v1 reads
  last_article_map_len,
  debug_build,   \* the build may be one that checks debug_assert!: no
                 \* debug_assert! was false so far
  \* ---- the document the events come from (history) ----
  g_ctx,         \* the element the reader is inside
  g_pages,       \* page elements started
  g_revs,        \* revision elements started in the current page
  g_texts,       \* text events seen inside title and text elements
  g_extra,       \* those of them that continued a title or a body
  g_titled,      \* the current page has had its title element
  g_title,       \* the text of the current page's title element
  g_body,        \* the text of the current page's first revision
  g_blTitles,    \* titles of the pages seen that have a blacklisted prefix
  g_rdTitles,    \* titles of the pages seen whose body is a redirect
  g_src,         \* names passed to insert_article as a record's source
  g_dst,         \* names passed to insert_article as a link target
  g_ncalls,      \* number of insert_article and insert_link calls made
  g_wf,          \* every page so far was a well-formed, non-suppressed record
  g_exp_names,   \* the titles and link targets of those records
  g_exp_links,   \* the (title, link target) pairs of those records
  \* ---- a second run of read_archive over the same archive ----
  uuids2,        \* article_map.uuids of the second run
  links2,        \* article_map.links of the second run
  clock2,        \* the time and CONTEXT counter of the second run
  \* ---- a client of the ArticleMap interface ----
  variant,       \* "time": the ArticleMap of src/src/indexer.rs,
                 \* "hash": the ArticleMap of src/inserter/src/main.rs
  api_log,       \* history: the calls made, with arguments and result
  \* ---- load_article_map and the dump file ----
  dump,          \* the file at dump_filepath: whether it exists, and its content
  ld_ret,        \* the Result of the last load_article_map call
  ld_written,    \* history: the map whose serialization was written in full
  ld_reads,      \* history: how many times the archive was opened and parsed
  ld_calls,      \* number of load_article_map calls made
  \* ---- two read_archive functions reading the same events ----
  crawler,       \* the locals of read_archive of src/src/crawler.rs
  inserter,      \* the locals of read_archive of src/inserter/src/main.rs
  eq_debug,      \* whether the build has debug assertions
  \* ---- retrying_client ----
  rc_pc,         \* "connect": client().await; "sleep"; "returned"; "idle"
  rc_attempts,   \* iterations of the for loop begun
  last_err,      \* the local last_err: <<>> for None, <<err>> for Some(err)
  rc_ret,        \* the Result returned
  rc_log,        \* history: the outcome of each client() call, in order
  rc_slept,      \* history: seconds spent in sleep
  \* ---- main() of the crawler and of the explorer, and the store process ----
  sv_prog,       \* "crawler": src/src/crawler/main.rs; "explorer":
                 \* src/src/explorer/main.rs; "idle"
  sv_pc,         \* the step main is at
  sv_child,      \* the store process: "none", "running" or "stopped"
  job_result,    \* the local job_result: <<"unset">>, <<"ok">> or an error
  sys_result,    \* the local sys_result of the explorer
  stop_result,   \* the local stop_result
  sv_ret,        \* what main returned
  sv_stops,      \* history: calls of server.stop()
  \* ---- the links-file loader, src/src/main.rs ----
  lf_file,       \* the lines of ../data/links.txt, each a sequence of characters
  lf_pc,         \* "insert_articles", "insert_links", "returned", "panicked"
                 \* or "idle"
  lf_pos,        \* the line the BufReader of the running pass is at
  lf_uuids,      \* the HashMap uuids: name -> Uuid
  lf_src_uuid,   \* the local src_uuid: <<>> for None, <<uuid>> for Some(uuid)
  lf_pushed,     \* history: the items handed to inserter.push, in order
  lf_ret         \* what main returned

amVars == <<am_n, am_k>>
wpVars == <<wp_phase, wp_pc, wp_pos, wp_buf, wp_pending, wp_chan, wp_closed,
            wp_workers, wp_join, wp_started, wp_completed>>
pqVars == <<pq_phase, pq_pc, pq_pos, pq_buf, pq_promises, pq_sent, pq_acked>>
raVars == <<ra_pc, state, src, content, uuids, links, clock,
            last_article_map_len, debug_build>>
docVars == <<g_ctx, g_pages, g_revs, g_texts, g_extra, g_titled, g_title, g_body,
             g_blTitles, g_rdTitles, g_wf, g_exp_names, g_exp_links>>
callVars == <<g_src, g_dst, g_ncalls>>
run2Vars == <<uuids2, links2, clock2>>
apiVars == <<variant, api_log>>
ldVars == <<dump, ld_ret, ld_written, ld_reads, ld_calls>>
eqVars == <<crawler, inserter, eq_debug>>
rcVars == <<rc_pc, rc_attempts, last_err, rc_ret, rc_log, rc_slept>>
svVars == <<sv_prog, sv_pc, sv_child, job_result, sys_result, stop_result,
            sv_ret, sv_stops>>
lfVars == <<lf_file, lf_pc, lf_pos, lf_uuids, lf_src_uuid, lf_pushed, lf_ret>>
extVars == <<ldVars, eqVars, rcVars, svVars, lfVars>>
\* The variables of the other components, for each of these.
extButLd == <<eqVars, rcVars, svVars, lfVars>>
extButEq == <<ldVars, rcVars, svVars, lfVars>>
extButRc == <<ldVars, eqVars, svVars, lfVars>>
extButSv == <<ldVars, eqVars, rcVars, lfVars>>
extButLf == <<ldVars, eqVars, rcVars, svVars>>
vars == <<amVars, wpVars, pqVars, raVars, docVars, callVars, run2Vars, apiVars,
          extVars>>

(***************************************************************************)
(* Items and the order in which the two phases push them.                  *)
(***************************************************************************)
Vertex(a) == [kind |-> "Vertex", id |-> a, dst |-> 0]
VertexProperty(a) == [kind |-> "VertexProperty", id |-> a, dst |-> 0]
Edge(s, d) == [kind |-> "Edge", id |-> s, dst |-> d]

\* The r-th pair of {1..n} x {1..n} in the iteration order of
\* BTreeMap<Uuid, BTreeSet<Uuid>> (by source, then by destination).
LinkPair(n, r) == <<((r - 1) \div n) + 1, ((r - 1) % n) + 1>>

\* insert_articles that pushes one item, the Vertex, per entry of uuids.
ArticleItems_vertex_only(n) == [i \in 1..n |-> Vertex(i)]

\* The items insert_articles pushes: for each entry of uuids, in key order,
\* a Vertex and then its VertexProperty.
ArticleItems(n) ==
  [i \in 1..(2 * n) |->
     IF i % 2 = 1 THEN Vertex((i + 1) \div 2) ELSE VertexProperty(i \div 2)]

\* insert_links that pushes one Edge per key of links, to the first member
\* of its set.
LinkItems_one_per_source(n, k) ==
  SelectSeq([r \in 1..k |-> Edge(LinkPair(n, r)[1], LinkPair(n, r)[2])],
            LAMBDA it : it.dst = 1)

\* The items insert_links pushes: one Edge per (src, dst) of links.
LinkItems(n, k) ==
  [r \in 1..k |-> Edge(LinkPair(n, r)[1], LinkPair(n, r)[2])]

PhaseItems(phase) ==
  IF phase = "articles" THEN ArticleItems(am_n) ELSE LinkItems(am_n, am_k)

\* Whether a batch holds an Edge item.
HasEdge(batch) == \E j \in DOMAIN batch : batch[j].kind = "Edge"

RECURSIVE Flatten(_)
Flatten(batches) ==
  IF batches = <<>> THEN <<>> ELSE Head(batches) \o Flatten(Tail(batches))

Range(s) == {s[i] : i \in DOMAIN s}

Min(a, b) == IF a < b THEN a ELSE b

\* The ArticleMaps handed to the dispatch phase: n articles and the first k
\* pairs of their links.
AmInit ==
  /\ am_n \in 0..MaxArticles
  /\ am_k \in 0..Min(MaxLinks, am_n * am_n)

(***************************************************************************)
(* Worker-pool BulkInserter and run(), src/src/indexer.rs.                 *)
(***************************************************************************)
Workers == 1..NumWorkers

WorkerIdle == [st |-> "recv", batch |-> <<>>]

\* A worker whose task has ended (its Receiver clone is dropped).
Ended(w) == w.st \in {"done", "panicked"}

WP_Init ==
  /\ wp_phase = "articles"
  /\ wp_pc = "new"
  /\ wp_pos = 1
  /\ wp_buf = <<>>
  /\ wp_pending = <<>>
  /\ wp_chan = <<>>
  /\ wp_closed = FALSE
  /\ wp_workers = [i \in Workers |-> [st |-> "done", batch |-> <<>>]]
  /\ wp_join = 1
  /\ wp_started = <<>>
  /\ wp_completed = {}

\* BulkInserter::new: a fresh bounded channel, the workers spawned, an
\* empty buffer.
WP_new ==
  /\ wp_pc = "new"
  /\ wp_chan' = <<>>
  /\ wp_closed' = FALSE
  /\ wp_workers' = [i \in Workers |-> WorkerIdle]
  /\ wp_buf' = <<>>
  /\ wp_pos' = 1
  /\ wp_pc' = "push"
  /\ UNCHANGED <<wp_phase, wp_pending, wp_join, wp_started, wp_completed>>
  /\ UNCHANGED <<amVars, pqVars, raVars, docVars, callVars, run2Vars, apiVars, extVars>>

\* A push that puts the item at the front of the buffer.
BufPush_front(buf, item) == <<item>> \o buf

\* self.buf.push(item)
BufPush(buf, item) == Append(buf, item)

\* A threshold test that lets the buffer grow one item past the threshold.
BufferFull_one_past(buf) == Len(buf) > REQUEST_BUFFER_SIZE

\* The test of push: self.buf.len() >= REQUEST_BUFFER_SIZE
BufferFull(buf) == Len(buf) >= REQUEST_BUFFER_SIZE

\* BulkInserter::push up to its await: the item is appended and a buffer
\* that reached the threshold is replaced by an empty one and handed to
\* requests.send.
WP_push ==
  /\ wp_pc = "push"
  /\ wp_pos <= Len(PhaseItems(wp_phase))
  /\ LET buf == BufPush(wp_buf, PhaseItems(wp_phase)[wp_pos])
     IN IF BufferFull(buf)
        THEN /\ wp_pending' = buf
             /\ wp_buf' = <<>>
             /\ wp_pc' = "send"
        ELSE /\ wp_buf' = buf
             /\ UNCHANGED <<wp_pending, wp_pc>>
  /\ wp_pos' = wp_pos + 1
  /\ UNCHANGED <<wp_phase, wp_chan, wp_closed, wp_workers, wp_join,
                 wp_started, wp_completed>>
  /\ UNCHANGED <<amVars, pqVars, raVars, docVars, callVars, run2Vars, apiVars, extVars>>

\* Mutant of WP_can_send: an unbounded channel.
WP_can_send_unbounded == TRUE

\* Whether a send on the channel can complete: the channel is bounded.
WP_can_send == Len(wp_chan) < ChanCap

\* Mutant of WP_send: flush sends the buffer and awaits the workers without
\* closing the channel.
WP_send_no_close ==
  /\ wp_pc \in {"send", "flush_send"}
  /\ ~wp_closed
  /\ WP_can_send
  /\ wp_chan' = Append(wp_chan, wp_pending)
  /\ wp_pending' = <<>>
  /\ IF wp_pc = "send"
     THEN /\ wp_pc' = "push"
          /\ UNCHANGED wp_join
     ELSE /\ wp_pc' = "join"
          /\ wp_join' = 1
  /\ UNCHANGED <<wp_phase, wp_pos, wp_buf, wp_closed, wp_workers, wp_started,
                 wp_completed>>
  /\ UNCHANGED <<amVars, pqVars, raVars, docVars, callVars, run2Vars, apiVars, extVars>>

\* requests.send(buf).await completing with Ok.  In flush the close() and the
\* first worker.await follow without another suspension point.
WP_send ==
  /\ wp_pc \in {"send", "flush_send"}
  /\ ~wp_closed
  /\ WP_can_send
  /\ wp_chan' = Append(wp_chan, wp_pending)
  /\ wp_pending' = <<>>
  /\ IF wp_pc = "send"
     THEN /\ wp_pc' = "push"
          /\ UNCHANGED <<wp_closed, wp_join>>
     ELSE /\ wp_pc' = "join"
          /\ wp_closed' = TRUE
          /\ wp_join' = 1
  /\ UNCHANGED <<wp_phase, wp_pos, wp_buf, wp_workers, wp_started,
                 wp_completed>>
  /\ UNCHANGED <<amVars, pqVars, raVars, docVars, callVars, run2Vars, apiVars, extVars>>

\* requests.send(buf).await returning Err (every Receiver was dropped): the
\* unwrap panics and the BulkInserter is dropped with the producer.
WP_send_closed ==
  /\ wp_pc \in {"send", "flush_send"}
  /\ wp_closed
  /\ wp_pc' = "panicked"
  /\ wp_phase' = "panicked"
  /\ UNCHANGED <<wp_pos, wp_buf, wp_pending, wp_chan, wp_closed, wp_workers,
                 wp_join, wp_started, wp_completed>>
  /\ UNCHANGED <<amVars, pqVars, raVars, docVars, callVars, run2Vars, apiVars, extVars>>

\* Mutant of WP_flush: the remaining buffer is not handed off.
WP_flush_no_handoff ==
  /\ wp_pc = "push"
  /\ wp_pos > Len(PhaseItems(wp_phase))
  /\ wp_pc' = "join"
  /\ wp_closed' = TRUE
  /\ wp_join' = 1
  /\ UNCHANGED <<wp_phase, wp_pos, wp_buf, wp_pending, wp_chan, wp_workers,
                 wp_started, wp_completed>>
  /\ UNCHANGED <<amVars, pqVars, raVars, docVars, callVars, run2Vars, apiVars, extVars>>

\* Mutant of WP_flush: the buffer is sent whether or not it is empty.
WP_flush_sends_empty ==
  /\ wp_pc = "push"
  /\ wp_pos > Len(PhaseItems(wp_phase))
  /\ wp_pending' = wp_buf
  /\ wp_buf' = <<>>
  /\ wp_pc' = "flush_send"
  /\ UNCHANGED <<wp_closed, wp_join>>
  /\ UNCHANGED <<wp_phase, wp_pos, wp_chan, wp_workers, wp_started,
                 wp_completed>>
  /\ UNCHANGED <<amVars, pqVars, raVars, docVars, callVars, run2Vars, apiVars, extVars>>

\* BulkInserter::flush up to its first await: a non-empty buffer is sent,
\* otherwise the channel is closed at once.
WP_flush ==
  /\ wp_pc = "push"
  /\ wp_pos > Len(PhaseItems(wp_phase))
  /\ IF wp_buf # <<>>
     THEN /\ wp_pending' = wp_buf
          /\ wp_buf' = <<>>
          /\ wp_pc' = "flush_send"
          /\ UNCHANGED <<wp_closed, wp_join>>
     ELSE /\ wp_pc' = "join"
          /\ wp_closed' = TRUE
          /\ wp_join' = 1
          /\ UNCHANGED <<wp_pending, wp_buf>>
  /\ UNCHANGED <<wp_phase, wp_pos, wp_chan, wp_workers, wp_started,
                 wp_completed>>
  /\ UNCHANGED <<amVars, pqVars, raVars, docVars, callVars, run2Vars, apiVars, extVars>>

\* Mutant of WP_joinable: flush does not wait for the worker to end.
WP_joinable_nowait == TRUE

\* Whether worker.await of flush can return for the worker awaited.
WP_joinable == Ended(wp_workers[wp_join])

\* worker.await.unwrap() in flush, the workers taken in order.  A panicked
\* worker makes the unwrap panic; after the last worker flush returns and
\* run() goes on to the next phase.
WP_join ==
  /\ wp_pc = "join"
  /\ WP_joinable
  /\ IF wp_workers[wp_join].st = "panicked"
     THEN /\ wp_pc' = "panicked"
          /\ wp_phase' = "panicked"
          /\ UNCHANGED wp_join
     ELSE IF wp_join < NumWorkers
     THEN /\ wp_join' = wp_join + 1
          /\ UNCHANGED <<wp_pc, wp_phase>>
     ELSE IF wp_phase = "articles"
     THEN /\ wp_phase' = "links"
          /\ wp_pc' = "new"
          /\ UNCHANGED wp_join
     ELSE /\ wp_phase' = "finished"
          /\ wp_pc' = "finished"
          /\ UNCHANGED wp_join
  /\ UNCHANGED <<wp_pos, wp_buf, wp_pending, wp_chan, wp_closed, wp_workers,
                 wp_started, wp_completed>>
  /\ UNCHANGED <<amVars, pqVars, raVars, docVars, callVars, run2Vars, apiVars, extVars>>

\* Mutant of WP_recv: the batch is read but stays at the head of the channel.
WP_recv_peek(i) ==
  /\ wp_workers[i].st = "recv"
  /\ wp_chan # <<>>
  /\ wp_workers' = [wp_workers EXCEPT ![i] = [st |-> "insert", batch |-> Head(wp_chan)]]
  /\ wp_started' = Append(wp_started, Head(wp_chan))
  /\ UNCHANGED <<wp_phase, wp_pc, wp_pos, wp_buf, wp_pending, wp_chan,
                 wp_closed, wp_join, wp_completed>>
  /\ UNCHANGED <<amVars, pqVars, raVars, docVars, callVars, run2Vars, apiVars, extVars>>

\* rx.recv().await returning Ok(buf): the worker passes buf to bulk_insert.
WP_recv(i) ==
  /\ wp_workers[i].st = "recv"
  /\ wp_chan # <<>>
  /\ wp_workers' = [wp_workers EXCEPT ![i] = [st |-> "insert", batch |-> Head(wp_chan)]]
  /\ wp_chan' = Tail(wp_chan)
  /\ wp_started' = Append(wp_started, Head(wp_chan))
  /\ UNCHANGED <<wp_phase, wp_pc, wp_pos, wp_buf, wp_pending, wp_closed,
                 wp_join, wp_completed>>
  /\ UNCHANGED <<amVars, pqVars, raVars, docVars, callVars, run2Vars, apiVars, extVars>>

\* rx.recv().await returning Err (closed and empty): the worker's loop ends.
WP_recv_closed(i) ==
  /\ wp_workers[i].st = "recv"
  /\ wp_chan = <<>>
  /\ wp_closed
  /\ wp_workers' = [wp_workers EXCEPT ![i] = [st |-> "done", batch |-> <<>>]]
  /\ UNCHANGED <<wp_phase, wp_pc, wp_pos, wp_buf, wp_pending, wp_chan,
                 wp_closed, wp_join, wp_started, wp_completed>>
  /\ UNCHANGED <<amVars, pqVars, raVars, docVars, callVars, run2Vars, apiVars, extVars>>

\* client.bulk_insert(buf).await returning Ok.
WP_insert_ok(i) ==
  /\ wp_workers[i].st = "insert"
  /\ wp_completed' = wp_completed \cup {wp_workers[i].batch}
  /\ wp_workers' = [wp_workers EXCEPT ![i] = WorkerIdle]
  /\ UNCHANGED <<wp_phase, wp_pc, wp_pos, wp_buf, wp_pending, wp_chan,
                 wp_closed, wp_join, wp_started>>
  /\ UNCHANGED <<amVars, pqVars, raVars, docVars, callVars, run2Vars, apiVars, extVars>>

\* A worker that passes over the Err of bulk_insert and takes the next batch.
WP_insert_err_ignored(i) ==
  /\ wp_workers[i].st = "insert"
  /\ wp_workers' = [wp_workers EXCEPT ![i] = WorkerIdle]
  /\ UNCHANGED <<wp_phase, wp_pc, wp_pos, wp_buf, wp_pending, wp_chan,
                 wp_closed, wp_join, wp_started, wp_completed>>
  /\ UNCHANGED <<amVars, pqVars, raVars, docVars, callVars, run2Vars, apiVars, extVars>>

\* Mutant of WP_insert_err: a Receiver outlives the workers, so the channel
\* stays open when the last worker panics.
WP_insert_err_rx_kept(i) ==
  /\ wp_workers[i].st = "insert"
  /\ wp_workers' = [wp_workers EXCEPT ![i] = [st |-> "panicked", batch |-> <<>>]]
  /\ UNCHANGED <<wp_phase, wp_pc, wp_pos, wp_buf, wp_pending, wp_chan,
                 wp_closed, wp_join, wp_started, wp_completed>>
  /\ UNCHANGED <<amVars, pqVars, raVars, docVars, callVars, run2Vars, apiVars, extVars>>

\* client.bulk_insert(buf).await returning Err: the unwrap panics the task,
\* its Receiver is dropped, and the last Receiver dropped closes the channel.
WP_insert_err(i) ==
  /\ wp_workers[i].st = "insert"
  /\ wp_workers' = [wp_workers EXCEPT ![i] = [st |-> "panicked", batch |-> <<>>]]
  /\ wp_closed' = (wp_closed \/ \A j \in Workers \ {i} : Ended(wp_workers[j]))
  /\ UNCHANGED <<wp_phase, wp_pc, wp_pos, wp_buf, wp_pending, wp_chan,
                 wp_join, wp_started, wp_completed>>
  /\ UNCHANGED <<amVars, pqVars, raVars, docVars, callVars, run2Vars, apiVars, extVars>>

WP_Next ==
  \/ WP_new
  \/ WP_push
  \/ WP_send
  \/ WP_send_closed
  \/ WP_flush
  \/ WP_join
  \/ \E i \in Workers : WP_recv(i)
  \/ \E i \in Workers : WP_recv_closed(i)
  \/ \E i \in Workers : WP_insert_ok(i)
  \/ \E i \in Workers : WP_insert_err(i)

WP_Idle ==
  /\ wp_phase = "idle"
  /\ wp_pc = "idle"
  /\ wp_pos = 1
  /\ wp_buf = <<>>
  /\ wp_pending = <<>>
  /\ wp_chan = <<>>
  /\ wp_closed = FALSE
  /\ wp_workers = [i \in Workers |-> [st |-> "done", batch |-> <<>>]]
  /\ wp_join = 1
  /\ wp_started = <<>>
  /\ wp_completed = {}

PQ_Idle ==
  /\ pq_phase = "idle"
  /\ pq_pc = "idle"
  /\ pq_pos = 1
  /\ pq_buf = <<>>
  /\ pq_promises = <<>>
  /\ pq_sent = <<>>
  /\ pq_acked = {}

\* The clock a second run of read_archive starts with: the second run begins
\* after the first has ended, and a run allots at most one id per page and
\* one per text event.
SecondRunStart == 1 + MaxPages + MaxTexts

\* read_archive is not running.
RA_Idle ==
  /\ ra_pc = "idle"
  /\ state = "Ignore"
  /\ src = <<>>
  /\ content = <<>>
  /\ uuids = [n \in {} |-> 0]
  /\ links = [k \in {} |-> {}]
  /\ clock = 1
  /\ last_article_map_len = 0
  /\ debug_build = TRUE
  /\ g_ctx = "top"
  /\ g_pages = 0
  /\ g_revs = 0
  /\ g_texts = 0
  /\ g_extra = 0
  /\ g_titled = FALSE
  /\ g_title = <<>>
  /\ g_body = <<>>
  /\ g_blTitles = {}
  /\ g_rdTitles = {}
  /\ g_src = {}
  /\ g_dst = {}
  /\ g_ncalls = 0
  /\ g_wf = TRUE
  /\ g_exp_names = {}
  /\ g_exp_links = {}
  /\ uuids2 = [n \in {} |-> 0]
  /\ links2 = [k \in {} |-> {}]
  /\ clock2 = SecondRunStart

\* No client calls the ArticleMap interface.
API_Idle ==
  /\ variant = "time"
  /\ api_log = <<>>

\* A map with no article and no link: ArticleMap::default().
EmptyMap == [uuids |-> <<>>, links |-> <<>>]

\* No dump file, and load_article_map has not been called.
LD_Idle ==
  /\ dump = [exists |-> FALSE, bytes |-> <<>>]
  /\ ld_ret = [called |-> FALSE, ok |-> FALSE, map |-> EmptyMap, input |-> <<>>]
  /\ ld_written = [some |-> FALSE, map |-> EmptyMap]
  /\ ld_reads = 0
  /\ ld_calls = 0

\* The locals of a read_archive before its loop.
ParserInit ==
  [pc |-> "reading", state |-> "Ignore", src |-> <<>>, content |-> <<>>,
   article_map |-> EmptyMap]

\* No pair of parsers is compared.
EQ_Idle ==
  /\ crawler = [ParserInit EXCEPT !.pc = "idle"]
  /\ inserter = [ParserInit EXCEPT !.pc = "idle"]
  /\ eq_debug = FALSE

\* retrying_client is not called.
RC_Idle ==
  /\ rc_pc = "idle"
  /\ rc_attempts = 0
  /\ last_err = <<>>
  /\ rc_ret = [ok |-> FALSE, err |-> <<>>]
  /\ rc_log = <<>>
  /\ rc_slept = 0

\* No main is run.
SV_Idle ==
  /\ sv_prog = "idle"
  /\ sv_pc = "idle"
  /\ sv_child = "none"
  /\ job_result = <<"unset">>
  /\ sys_result = <<"unset">>
  /\ stop_result = <<"unset">>
  /\ sv_ret = <<"unset">>
  /\ sv_stops = 0

\* The loader is not run.
LF_Idle ==
  /\ lf_file = <<>>
  /\ lf_pc = "idle"
  /\ lf_pos = 0
  /\ lf_uuids = <<>>
  /\ lf_src_uuid = <<>>
  /\ lf_pushed = <<>>
  /\ lf_ret = <<"unset">>

EXT_Idle == LD_Idle /\ EQ_Idle /\ RC_Idle /\ SV_Idle /\ LF_Idle

InitWP == AmInit /\ WP_Init /\ PQ_Idle /\ RA_Idle /\ API_Idle /\ EXT_Idle

SpecWP == InitWP /\ [][WP_Next]_vars

\* The items of the batches whose bulk_insert completed.
WP_completed_items == UNION {Range(b) : b \in wp_completed}

\* The batches sent on the channel or held by a blocked send, which no
\* worker has received yet.
WP_unreceived ==
  Len(wp_chan) + (IF wp_pc \in {"send", "flush_send"} THEN 1 ELSE 0)

\* C1: when flush of the worker-pool BulkInserter has returned, every item
\* pushed before it was passed to a bulk_insert call that completed, the
\* items of the final partial buffer included.
C1_FlushLosesNothing ==
  /\ wp_phase \in {"links", "finished"}
       => Range(ArticleItems(am_n)) \subseteq WP_completed_items
  /\ wp_phase = "finished"
       => Range(LinkItems(am_n, am_k)) \subseteq WP_completed_items

\* A run that finished after a flush that handed off a partial buffer.
C1_Witness ==
  /\ wp_phase = "finished"
  /\ am_k >= 3
  /\ am_k % REQUEST_BUFFER_SIZE # 0
  /\ Range(LinkItems(am_n, am_k)) \subseteq WP_completed_items

\* C3: no batch holding an Edge item is passed to bulk_insert before the
\* bulk_insert of every Vertex and VertexProperty item has completed.
C3_EdgesAfterVertices ==
  \A i \in DOMAIN wp_started :
    HasEdge(wp_started[i])
      => Range(ArticleItems(am_n)) \subseteq WP_completed_items

\* An Edge batch is inside bulk_insert in a run with several article batches.
C3_Witness ==
  /\ am_n >= 3
  /\ \E i \in Workers :
       wp_workers[i].st = "insert" /\ HasEdge(wp_workers[i].batch)

\* C5: the batches the producer built and no worker has received yet never
\* number more than the channel bound plus one.
C5_Backpressure == WP_unreceived <= ChanCap + 1

\* The producer is blocked inside push on a full channel while every worker
\* is still inside bulk_insert.
C5_Witness ==
  /\ wp_pc = "send"
  /\ Len(wp_chan) = ChanCap
  /\ WP_unreceived = ChanCap + 1
  /\ \A i \in Workers : wp_workers[i].st = "insert"
  /\ ~ENABLED WP_send

(***************************************************************************)
(* Promise-queue BulkInserter and main(), src/inserter/src/main.rs.        *)
(***************************************************************************)
PQ_Init ==
  /\ pq_phase = "articles"
  /\ pq_pc = "new"
  /\ pq_pos = 1
  /\ pq_buf = <<>>
  /\ pq_promises = <<>>
  /\ pq_sent = <<>>
  /\ pq_acked = {}

\* BulkInserter::new: an empty buffer and an empty promise queue.
PQ_new ==
  /\ pq_pc = "new"
  /\ pq_buf' = <<>>
  /\ pq_promises' = <<>>
  /\ pq_pos' = 1
  /\ pq_pc' = "push"
  /\ UNCHANGED <<pq_phase, pq_sent, pq_acked>>
  /\ UNCHANGED <<amVars, wpVars, raVars, docVars, callVars, run2Vars, apiVars, extVars>>

\* The phase that follows a flush that returned Ok.
PQ_after_flush(phase) == IF phase = "articles" THEN "links" ELSE "finished"

\* BulkInserter::push up to its first await: the item is appended; a buffer
\* that reached the threshold is sent at once when the window has room,
\* otherwise push awaits the oldest promise first.
PQ_push ==
  /\ pq_pc = "push"
  /\ pq_pos <= Len(PhaseItems(pq_phase))
  /\ pq_pos' = pq_pos + 1
  /\ LET buf == Append(pq_buf, PhaseItems(pq_phase)[pq_pos])
     IN IF Len(buf) < INS_REQUEST_BUFFER_SIZE
        THEN /\ pq_buf' = buf
             /\ UNCHANGED <<pq_pc, pq_promises, pq_sent>>
        ELSE IF Len(pq_promises) >= PROMISE_BUFFER_SIZE
        THEN /\ pq_buf' = buf
             /\ pq_pc' = "window"
             /\ UNCHANGED <<pq_promises, pq_sent>>
        ELSE /\ pq_promises' = Append(pq_promises, buf)
             /\ pq_sent' = Append(pq_sent, buf)
             /\ pq_buf' = <<>>
             /\ UNCHANGED pq_pc
  /\ UNCHANGED <<pq_phase, pq_acked>>
  /\ UNCHANGED <<amVars, wpVars, raVars, docVars, callVars, run2Vars, apiVars, extVars>>

\* Mutant of PQ_push_await_ok: the newest outstanding promise is awaited.
PQ_push_await_newest ==
  /\ pq_pc = "window"
  /\ pq_acked' = pq_acked \cup {pq_promises[Len(pq_promises)]}
  /\ pq_promises' = Append(SubSeq(pq_promises, 1, Len(pq_promises) - 1), pq_buf)
  /\ pq_sent' = Append(pq_sent, pq_buf)
  /\ pq_buf' = <<>>
  /\ pq_pc' = "push"
  /\ UNCHANGED <<pq_phase, pq_pos>>
  /\ UNCHANGED <<amVars, wpVars, raVars, docVars, callVars, run2Vars, apiVars, extVars>>

\* promise.await of push's while loop returning Ok: the oldest promise is
\* popped; once the window has room the buffer is sent and replaced.
PQ_push_await_ok ==
  /\ pq_pc = "window"
  /\ pq_acked' = pq_acked \cup {Head(pq_promises)}
  /\ IF Len(Tail(pq_promises)) >= PROMISE_BUFFER_SIZE
     THEN /\ pq_promises' = Tail(pq_promises)
          /\ UNCHANGED <<pq_pc, pq_buf, pq_sent>>
     ELSE /\ pq_promises' = Append(Tail(pq_promises), pq_buf)
          /\ pq_sent' = Append(pq_sent, pq_buf)
          /\ pq_buf' = <<>>
          /\ pq_pc' = "push"
  /\ UNCHANGED <<pq_phase, pq_pos>>
  /\ UNCHANGED <<amVars, wpVars, raVars, docVars, callVars, run2Vars, apiVars, extVars>>

\* BulkInserter::flush up to its first await: it iterates over the promises
\* only and never looks at buf; with none outstanding it returns Ok at once.
PQ_flush ==
  /\ pq_pc = "push"
  /\ pq_pos > Len(PhaseItems(pq_phase))
  /\ IF pq_promises = <<>>
     THEN /\ pq_phase' = PQ_after_flush(pq_phase)
          /\ pq_pc' = IF pq_phase = "articles" THEN "new" ELSE "finished"
     ELSE /\ pq_pc' = "flush"
          /\ UNCHANGED pq_phase
  /\ UNCHANGED <<pq_pos, pq_buf, pq_promises, pq_sent, pq_acked>>
  /\ UNCHANGED <<amVars, wpVars, raVars, docVars, callVars, run2Vars, apiVars, extVars>>

\* promise.await of flush returning Ok; after the last promise flush returns
\* Ok and main() goes on to the next phase.
PQ_flush_await_ok ==
  /\ pq_pc = "flush"
  /\ pq_acked' = pq_acked \cup {Head(pq_promises)}
  /\ pq_promises' = Tail(pq_promises)
  /\ IF Tail(pq_promises) = <<>>
     THEN /\ pq_phase' = PQ_after_flush(pq_phase)
          /\ pq_pc' = IF pq_phase = "articles" THEN "new" ELSE "finished"
     ELSE UNCHANGED <<pq_phase, pq_pc>>
  /\ UNCHANGED <<pq_pos, pq_buf, pq_sent>>
  /\ UNCHANGED <<amVars, wpVars, raVars, docVars, callVars, run2Vars, apiVars, extVars>>

\* promise.await (or res.get()) returning Err in push or in flush: the `?`
\* returns the error up to main().
PQ_await_err ==
  /\ pq_pc \in {"window", "flush"}
  /\ pq_phase' = "failed"
  /\ pq_pc' = "failed"
  /\ UNCHANGED <<pq_pos, pq_buf, pq_promises, pq_sent, pq_acked>>
  /\ UNCHANGED <<amVars, wpVars, raVars, docVars, callVars, run2Vars, apiVars, extVars>>

PQ_Next ==
  \/ PQ_new
  \/ PQ_push
  \/ PQ_push_await_ok
  \/ PQ_flush
  \/ PQ_flush_await_ok
  \/ PQ_await_err

InitPQ == AmInit /\ PQ_Init /\ WP_Idle /\ RA_Idle /\ API_Idle /\ EXT_Idle

SpecPQ == InitPQ /\ [][PQ_Next]_vars

\* The items of the requests whose response was awaited with Ok.
PQ_acked_items == UNION {Range(b) : b \in pq_acked}

\* C2: when flush of the promise-queue BulkInserter has returned Ok, every
\* item pushed before it was part of a request that was sent and whose
\* response was awaited.
C2_NoWriteLost ==
  /\ pq_phase \in {"links", "finished"}
       => Range(ArticleItems(am_n)) \subseteq PQ_acked_items
  /\ pq_phase = "finished"
       => Range(LinkItems(am_n, am_k)) \subseteq PQ_acked_items

\* C4: whenever a request holding an Edge item has been sent, the Vertex
\* items of the edge's source and destination were part of requests that
\* were acknowledged (which can only have happened in insert_articles).
C4_EdgeEndpointsAcked ==
  \A i \in DOMAIN pq_sent :
    \A j \in DOMAIN pq_sent[i] :
      pq_sent[i][j].kind = "Edge"
        => /\ Vertex(pq_sent[i][j].id) \in PQ_acked_items
           /\ Vertex(pq_sent[i][j].dst) \in PQ_acked_items

(***************************************************************************)
(* read_archive of src/src/indexer.rs.  Strings are sequences of           *)
(* characters; a text event carries such a sequence.                       *)
(***************************************************************************)
\* A byte that makes str::from_utf8 fail.
BadByte == "\\xFF"

\* ARTICLE_NAME_PREFIX_BLACKLIST
ARTICLE_NAME_PREFIX_BLACKLIST ==
  { <<"W", "i", "k", "i", "p", "e", "d", "i", "a", ":">>,
    <<"W", "P", ":">>,
    <<":">>,
    <<"F", "i", "l", "e", ":">>,
    <<"I", "m", "a", "g", "e", ":">>,
    <<"T", "e", "m", "p", "l", "a", "t", "e", ":">>,
    <<"U", "s", "e", "r", ":">> }

\* REDIRECT_PREFIX, "#REDIRECT [["
REDIRECT_PREFIX ==
  <<"#", "R", "E", "D", "I", "R", "E", "C", "T", " ", "[", "[">>

\* str::starts_with
StartsWith(s, prefix) ==
  /\ Len(s) >= Len(prefix)
  /\ SubSeq(s, 1, Len(prefix)) = prefix

\* The blacklist check with the prefix "WP:" left out.
Blacklisted_without_WP(name) ==
  \E prefix \in ARTICLE_NAME_PREFIX_BLACKLIST \ {<<"W", "P", ":">>} :
    StartsWith(name, prefix)

\* `ARTICLE_NAME_PREFIX_BLACKLIST.iter().any(|prefix| src.starts_with(prefix))`
Blacklisted(name) ==
  \E prefix \in ARTICLE_NAME_PREFIX_BLACKLIST : StartsWith(name, prefix)

\* The redirect check comparing the whole body with the marker.
IsRedirect_whole_body(text) == text = REDIRECT_PREFIX

\* `content.starts_with(REDIRECT_PREFIX)`
IsRedirect(text) == StartsWith(text, REDIRECT_PREFIX)

\* A decoding that accepts every byte sequence (str::from_utf8_lossy).
ValidUtf8_lossy(text) == TRUE

\* str::from_utf8(e) is Ok
ValidUtf8(text) == \A i \in DOMAIN text : text[i] # BadByte

Whitespace == {" ", "\n", "\t"}

\* str::trim
RECURSIVE TrimStart(_)
TrimStart(s) ==
  IF s # <<>> /\ Head(s) \in Whitespace THEN TrimStart(Tail(s)) ELSE s

RECURSIVE TrimEnd(_)
TrimEnd(s) ==
  IF s # <<>> /\ s[Len(s)] \in Whitespace
  THEN TrimEnd(SubSeq(s, 1, Len(s) - 1))
  ELSE s

Trim(s) == TrimEnd(TrimStart(s))

\* The class [^\[\]|] of wiki_link_re.
LinkNameChar(c) == c \notin {"[", "]", "|"}

\* The end (exclusive) of the longest run of LinkNameChar starting at i.
RECURSIVE NameRunEnd(_, _)
NameRunEnd(s, i) ==
  IF i <= Len(s) /\ LinkNameChar(s[i]) THEN NameRunEnd(s, i + 1) ELSE i

\* Whether s holds "]]" at position j.
ClosesAt(s, j) == j + 1 <= Len(s) /\ s[j] = "]" /\ s[j + 1] = "]"

\* wiki_link_re = \[\[([^\[\]|]+)(|[\]]+)?\]\] matched at position i: 0 when
\* there is no match, otherwise the position where the first group ends.
\* After "[[" the first group takes one or more name characters; the second
\* group is the alternation of the empty string and a run of "]", so it
\* consumes no "|", and "]]" has to follow the name run directly (a shorter
\* first group is followed by a name character and cannot be closed).
MatchAt(s, i) ==
  IF i + 1 <= Len(s) /\ s[i] = "[" /\ s[i + 1] = "["
  THEN LET j == NameRunEnd(s, i + 2)
       IN IF j > i + 2 /\ ClosesAt(s, j) THEN j ELSE 0
  ELSE 0

\* wiki_link_re.captures_iter(content) mapped to cap[1]: the leftmost
\* non-overlapping matches, from position i on.
RECURSIVE CapturesFrom(_, _)
CapturesFrom(s, i) ==
  IF i > Len(s) THEN <<>>
  ELSE LET j == MatchAt(s, i)
       IN IF j = 0 THEN CapturesFrom(s, i + 1)
          ELSE <<SubSeq(s, i + 2, j - 1)>> \o CapturesFrom(s, j + 2)

WikiLinks(s) == CapturesFrom(s, 1)

\* ArticleMap::insert_article that returns a new id without storing it.
insert_article_unrecorded(u, c, name) ==
  IF name \in DOMAIN u
  THEN [uuids |-> u, clock |-> c, uuid |-> u[name]]
  ELSE [uuids |-> u, clock |-> c + 1, uuid |-> c]

\* ArticleMap::insert_article that allots an id without looking the name up.
insert_article_no_lookup(u, c, name) ==
  [uuids |-> [n \in DOMAIN u \cup {name} |->
                IF n = name THEN c ELSE u[n]],
   clock |-> c + 1,
   uuid |-> c]

\* ArticleMap::insert_article: the uuids map, the clock and the uuid
\* returned.  Uuid::new_v1 builds the id of a new name from the time and
\* the CONTEXT counter, which never repeat: the id is the clock value.
insert_article(u, c, name) ==
  IF name \in DOMAIN u
  THEN [uuids |-> u, clock |-> c, uuid |-> u[name]]
  ELSE [uuids |-> [n \in DOMAIN u \cup {name} |->
                     IF n = name THEN c ELSE u[n]],
        clock |-> c + 1,
        uuid |-> c]

\* ArticleMap::insert_link that keeps only the container of src_uuid.
insert_link_single_entry(l, src_uuid, dst_uuid) ==
  [k \in {src_uuid} |->
     (IF src_uuid \in DOMAIN l THEN l[src_uuid] ELSE {}) \cup {dst_uuid}]

\* ArticleMap::insert_link that stores a fresh container under src_uuid.
insert_link_fresh_container(l, src_uuid, dst_uuid) ==
  [k \in DOMAIN l \cup {src_uuid} |->
     IF k = src_uuid THEN {dst_uuid} ELSE l[k]]

\* ArticleMap::insert_link
insert_link(l, src_uuid, dst_uuid) ==
  [k \in DOMAIN l \cup {src_uuid} |->
     IF k = src_uuid
     THEN (IF src_uuid \in DOMAIN l THEN l[src_uuid] ELSE {}) \cup {dst_uuid}
     ELSE l[k]]

\* The loop over wiki_link_re.captures_iter(&content) at a revision close,
\* from the i-th capture on.
RECURSIVE insert_captures(_, _, _, _, _, _)
insert_captures(u, l, c, src_uuid, caps, i) ==
  IF i > Len(caps) THEN [uuids |-> u, links |-> l, clock |-> c]
  ELSE LET r == insert_article(u, c, caps[i])
       IN insert_captures(r.uuids, insert_link(l, src_uuid, r.uuid),
                          r.clock, src_uuid, caps, i + 1)

\* A progress report made as soon as the map has grown at all.
Report_on_any_growth(u) ==
  IF Cardinality(DOMAIN u) - last_article_map_len >= 1
  THEN Cardinality(DOMAIN u)
  ELSE last_article_map_len

\* The progress report that ends an iteration of the loop: the value of
\* last_article_map_len after it, u being article_map.uuids.
Report(u) ==
  IF Cardinality(DOMAIN u) - last_article_map_len >= PROGRESS_STEP
  THEN Cardinality(DOMAIN u)
  ELSE last_article_map_len

(***************************************************************************)
(* The archive.  read_event delivers the events of a well-nested document  *)
(* of page elements; a page holds at most one title element, before its    *)
(* revision elements, and a revision holds text elements.  Tags of         *)
(* elements of other names may come anywhere, and the document may end     *)
(* anywhere.                                                               *)
(***************************************************************************)
NameA == <<"A">>
NameB == <<"B">>
TitleWPA == <<"W", "P", ":", "A">>
BodyPlain == <<"x">>
BodyLinkB == <<"[", "[", "B", "]", "]">>
BodyLinkWPA == <<"[", "[", "W", "P", ":", "A", "]", "]">>
BodyRedirect == REDIRECT_PREFIX \o <<"A", "]", "]">>
BodyPiped == <<"[", "[", "B", "|", "S", "]", "]">>
BadText == <<BadByte>>

TitleTexts == {NameA, NameB, TitleWPA, BadText}
BodyTexts == {BodyPlain, BodyLinkB, BodyLinkWPA, BodyRedirect, BodyPiped,
              BadText}

Ev(type, arg) == [type |-> type, arg |-> arg]
EofEvent == Ev("Eof", <<>>)
\* An event of an element of another name; its start tag stands for its end
\* tag too, which no arm of the match names either.
OtherEvents == {Ev("Start", "ns")}

\* A text event may come inside an element whose text so far is `sofar`.
MayText(sofar) ==
  g_texts < MaxTexts /\ (sofar = <<>> \/ g_extra < MaxExtraTexts)

\* The events read_event can deliver next.
DocEvents ==
  {EofEvent}
  \cup OtherEvents
  \cup
  CASE g_ctx = "top" ->
         {Ev("Start", "page") : x \in {y \in {1} : g_pages < MaxPages}}
    [] g_ctx = "page" ->
         {Ev("End", "page")}
         \cup {Ev("Start", "title") :
                 x \in {y \in {1} : ~g_titled /\ g_revs = 0}}
         \cup {Ev("Start", "revision") :
                 x \in {y \in {1} : g_revs < MaxRevisions}}
    [] g_ctx = "title" ->
         {Ev("End", "title")}
         \cup {Ev("Text", t) : t \in {y \in TitleTexts : MayText(g_title)}}
    [] g_ctx = "revision" ->
         {Ev("End", "revision"), Ev("Start", "text")}
    [] g_ctx = "text" ->
         {Ev("End", "text")}
         \cup {Ev("Text", t) :
                 t \in {y \in BodyTexts :
                          MayText(IF g_revs = 1 THEN g_body ELSE <<>>)}}


\* The bytes of a text event are not valid UTF-8.
DocInvalid(text) == BadByte \in Range(text)

\* The record-level reading of the two filters: the title of the page has a
\* blacklisted prefix; the body of its first revision begins with the
\* redirect marker.
DocBlacklisted(title) ==
  \E prefix \in ARTICLE_NAME_PREFIX_BLACKLIST : StartsWith(title, prefix)
DocRedirect(body) == StartsWith(body, REDIRECT_PREFIX)

\* The link targets a body names, in wiki syntax: [[name]] and
\* [[name|shown text]] both name the target `name`.
RECURSIVE AliasRunEnd(_, _)
AliasRunEnd(s, i) ==
  IF i <= Len(s) /\ s[i] \notin {"[", "]"} THEN AliasRunEnd(s, i + 1) ELSE i

RECURSIVE IntendedTargetsFrom(_, _)
IntendedTargetsFrom(s, i) ==
  IF i + 1 > Len(s) THEN {}
  ELSE IF s[i] = "[" /\ s[i + 1] = "["
       THEN LET j == NameRunEnd(s, i + 2)
                k == IF j <= Len(s) /\ s[j] = "|"
                     THEN AliasRunEnd(s, j + 1) ELSE j
            IN IF j > i + 2 /\ ClosesAt(s, k)
               THEN {SubSeq(s, i + 2, j - 1)}
                    \cup IntendedTargetsFrom(s, k + 2)
               ELSE IntendedTargetsFrom(s, i + 1)
       ELSE IntendedTargetsFrom(s, i + 1)

IntendedTargets(body) == IntendedTargetsFrom(body, 1)

\* The page being closed is a well-formed record that no filter suppresses.
GoodRecord ==
  /\ g_titled /\ g_title # <<>> /\ ~DocBlacklisted(g_title)
  /\ g_revs >= 1 /\ g_body # <<>> /\ ~DocRedirect(g_body)

\* The document side of reading event e.
DocStep(e) ==
  LET startOf(n) == e = Ev("Start", n)
      endOf(n) == e = Ev("End", n)
      inText == e.type = "Text" /\ g_ctx \in {"title", "text"}
      wf == g_wf /\ GoodRecord
  IN
  /\ g_ctx' = CASE startOf("page") -> "page"
                [] startOf("title") -> "title"
                [] startOf("revision") -> "revision"
                [] startOf("text") -> "text"
                [] endOf("text") -> "revision"
                [] endOf("revision") -> "page"
                [] endOf("title") -> "page"
                [] endOf("page") -> "top"
                [] OTHER -> g_ctx
  /\ g_pages' = IF startOf("page") THEN g_pages + 1 ELSE g_pages
  /\ g_revs' = CASE startOf("revision") -> g_revs + 1
                 [] endOf("page") -> 0
                 [] OTHER -> g_revs
  /\ g_texts' = IF inText THEN g_texts + 1 ELSE g_texts
  /\ g_extra' = IF \/ inText /\ g_ctx = "title" /\ g_title # <<>>
                   \/ inText /\ g_ctx = "text" /\ g_revs = 1 /\ g_body # <<>>
                THEN g_extra + 1 ELSE g_extra
  /\ g_titled' = CASE startOf("title") -> TRUE
                   [] endOf("page") -> FALSE
                   [] OTHER -> g_titled
  /\ g_title' = CASE inText /\ g_ctx = "title" -> g_title \o e.arg
                  [] endOf("page") -> <<>>
                  [] OTHER -> g_title
  /\ g_body' = CASE inText /\ g_ctx = "text" /\ g_revs = 1 -> g_body \o e.arg
                 [] endOf("page") -> <<>>
                 [] OTHER -> g_body
  /\ g_blTitles' = IF endOf("title") /\ DocBlacklisted(g_title)
                   THEN g_blTitles \cup {g_title} ELSE g_blTitles
  /\ g_rdTitles' = IF endOf("revision") /\ g_revs = 1 /\ DocRedirect(g_body)
                   THEN g_rdTitles \cup {g_title} ELSE g_rdTitles
  /\ g_wf' = IF endOf("page") THEN wf ELSE g_wf
  /\ g_exp_names' =
       IF endOf("page")
       THEN (IF wf THEN g_exp_names \cup {g_title} \cup IntendedTargets(g_body)
             ELSE {})
       ELSE g_exp_names
  /\ g_exp_links' =
       IF endOf("page")
       THEN (IF wf
             THEN g_exp_links
                  \cup {<<g_title, t>> : t \in IntendedTargets(g_body)}
             ELSE {})
       ELSE g_exp_links


\* ArticleMap::default() and the locals of read_archive before the loop.
RA_Init ==
  /\ ra_pc = "reading"
  /\ state = "Ignore"
  /\ src = <<>>
  /\ content = <<>>
  /\ uuids = [n \in {} |-> 0]
  /\ links = [k \in {} |-> {}]
  /\ clock = 1
  /\ last_article_map_len = 0
  /\ debug_build = TRUE
  /\ g_ctx = "top"
  /\ g_pages = 0
  /\ g_revs = 0
  /\ g_texts = 0
  /\ g_extra = 0
  /\ g_titled = FALSE
  /\ g_title = <<>>
  /\ g_body = <<>>
  /\ g_blTitles = {}
  /\ g_rdTitles = {}
  /\ g_src = {}
  /\ g_dst = {}
  /\ g_ncalls = 0
  /\ g_wf = TRUE
  /\ g_exp_names = {}
  /\ g_exp_links = {}
  /\ uuids2 = [n \in {} |-> 0]
  /\ links2 = [k \in {} |-> {}]
  /\ clock2 = SecondRunStart

\* An arm that only moves the parser to state `to`.
RA_goto(e, to) ==
  /\ DocStep(e)
  /\ state' = to
  /\ last_article_map_len' = Report(uuids)
  /\ UNCHANGED <<ra_pc, src, content, uuids, links, clock, debug_build,
                 callVars, amVars, wpVars, pqVars, run2Vars, apiVars, extVars>>

\* (Ignore, Start(page))
RA_page_start ==
  /\ ra_pc = "reading" /\ state = "Ignore"
  /\ \E e \in DocEvents :
       /\ e = Ev("Start", "page")
       /\ DocStep(e)
       /\ src' = <<>>
       /\ content' = <<>>
       /\ state' = "Page"
       /\ last_article_map_len' = Report(uuids)
  /\ UNCHANGED <<ra_pc, uuids, links, clock, debug_build, callVars,
                 amVars, wpVars, pqVars, run2Vars, apiVars, extVars>>

\* (Page, Start(revision))
RA_revision_start ==
  /\ ra_pc = "reading" /\ state = "Page"
  /\ \E e \in DocEvents :
       e = Ev("Start", "revision") /\ RA_goto(e, "MostRecentRevision")

\* (Page, Start(title))
RA_title_start ==
  /\ ra_pc = "reading" /\ state = "Page"
  /\ \E e \in DocEvents : e = Ev("Start", "title") /\ RA_goto(e, "Title")

\* (MostRecentRevision, Start(text))
RA_text_start ==
  /\ ra_pc = "reading" /\ state = "MostRecentRevision"
  /\ \E e \in DocEvents : e = Ev("Start", "text") /\ RA_goto(e, "Text")

\* A debug_assert! whose condition is `holds`: a build with debug assertions
\* panics when it is false; a build without them goes on, and is known to
\* be one from then on.
AssertPanics(holds) == debug_build /\ ~holds
AssertPassed(holds) == debug_build' = (debug_build /\ holds)

\* The revision close leaving the parser in Page, open to a further
\* revision of the page.
AfterRevision_reopens == "Page"

\* The state the revision close leaves the parser in.
AfterRevision == "Ignore"

\* (MostRecentRevision, End(revision)): the record is inserted.
RA_revision_end ==
  /\ ra_pc = "reading" /\ state = "MostRecentRevision"
  /\ \E e \in DocEvents :
       /\ e = Ev("End", "revision")
       /\ DocStep(e)
       /\ content' = Trim(content)
       /\ LET holds == src # <<>> /\ Trim(content) # <<>>
              caps == WikiLinks(Trim(content))
              a == insert_article(uuids, clock, src)
              r == insert_captures(a.uuids, links, a.clock, a.uuid, caps, 1)
              a2 == insert_article(uuids2, clock2, src)
              r2 == insert_captures(a2.uuids, links2, a2.clock, a2.uuid,
                                    caps, 1)
          IN \/ /\ AssertPanics(holds)
                /\ ra_pc' = "panicked"
                /\ UNCHANGED <<state, uuids, links, clock, run2Vars,
                               last_article_map_len, debug_build, callVars>>
             \/ /\ AssertPassed(holds)
                /\ uuids' = r.uuids
                /\ links' = r.links
                /\ clock' = r.clock
                /\ uuids2' = r2.uuids
                /\ links2' = r2.links
                /\ clock2' = r2.clock
                /\ g_src' = g_src \cup {src}
                /\ g_dst' = g_dst \cup Range(caps)
                /\ g_ncalls' = g_ncalls + 1 + 2 * Len(caps)
                /\ state' = AfterRevision
                /\ last_article_map_len' = Report(r.uuids)
                /\ UNCHANGED ra_pc
  /\ UNCHANGED <<src, amVars, wpVars, pqVars, apiVars, extVars>>

\* (Title, Text)
RA_title_text ==
  /\ ra_pc = "reading" /\ state = "Title"
  /\ \E e \in DocEvents :
       /\ e.type = "Text"
       /\ DocStep(e)
       /\ \/ /\ AssertPanics(src = <<>>)
             /\ ra_pc' = "panicked"
             /\ UNCHANGED <<src, state, last_article_map_len, debug_build>>
          \/ /\ AssertPassed(src = <<>>)
             /\ IF ValidUtf8(e.arg)
                THEN /\ src' = src \o e.arg
                     /\ state' = IF Blacklisted(src \o e.arg)
                                 THEN "Ignore" ELSE "Title"
                     /\ last_article_map_len' = Report(uuids)
                     /\ UNCHANGED ra_pc
                ELSE /\ ra_pc' = "error"
                     /\ UNCHANGED <<src, state, last_article_map_len>>
  /\ UNCHANGED <<content, uuids, links, clock, callVars,
                 amVars, wpVars, pqVars, run2Vars, apiVars, extVars>>

\* (Title, End(title))
RA_title_end ==
  /\ ra_pc = "reading" /\ state = "Title"
  /\ \E e \in DocEvents : e = Ev("End", "title") /\ RA_goto(e, "Page")

\* (Text, Text)
RA_text_text ==
  /\ ra_pc = "reading" /\ state = "Text"
  /\ \E e \in DocEvents :
       /\ e.type = "Text"
       /\ DocStep(e)
       /\ \/ /\ AssertPanics(content = <<>>)
             /\ ra_pc' = "panicked"
             /\ UNCHANGED <<content, state, last_article_map_len,
                            debug_build>>
          \/ /\ AssertPassed(content = <<>>)
             /\ IF ValidUtf8(e.arg)
                THEN /\ content' = content \o e.arg
                     /\ state' = IF IsRedirect(content \o e.arg)
                                 THEN "Ignore" ELSE "Text"
                     /\ last_article_map_len' = Report(uuids)
                     /\ UNCHANGED ra_pc
                ELSE /\ ra_pc' = "error"
                     /\ UNCHANGED <<content, state, last_article_map_len>>
  /\ UNCHANGED <<src, uuids, links, clock, callVars, amVars, wpVars, pqVars, run2Vars, apiVars, extVars>>

\* (Text, End(text))
RA_text_end ==
  /\ ra_pc = "reading" /\ state = "Text"
  /\ \E e \in DocEvents :
       e = Ev("End", "text") /\ RA_goto(e, "MostRecentRevision")

\* An Eof arm that takes the end of the stream inside a record for an error.
RA_eof_strict ==
  /\ ra_pc = "reading"
  /\ EofEvent \in DocEvents
  /\ ra_pc' = IF state = "Ignore" THEN "done" ELSE "error"
  /\ state' = "Returned"
  /\ src' = <<>>
  /\ content' = <<>>
  /\ g_ctx' = "top"
  /\ g_revs' = 0
  /\ g_titled' = FALSE
  /\ g_title' = <<>>
  /\ g_body' = <<>>
  /\ g_wf' = (g_wf /\ g_ctx = "top")
  /\ g_exp_names' = IF g_wf /\ g_ctx = "top" THEN g_exp_names ELSE {}
  /\ g_exp_links' = IF g_wf /\ g_ctx = "top" THEN g_exp_links ELSE {}
  /\ UNCHANGED <<uuids, links, clock, last_article_map_len, debug_build,
                 g_pages, g_texts, g_extra, g_blTitles, g_rdTitles,
                 callVars,
                 amVars, wpVars, pqVars, run2Vars, apiVars, extVars>>

\* (_, Eof): the loop ends and read_archive returns Ok(article_map); its
\* locals state, src and content go out of scope.  The document is over:
\* it was well-formed when it ended outside every page.
RA_eof ==
  /\ ra_pc = "reading"
  /\ EofEvent \in DocEvents
  /\ ra_pc' = "done"
  /\ state' = "Returned"
  /\ src' = <<>>
  /\ content' = <<>>
  /\ g_ctx' = "top"
  /\ g_revs' = 0
  /\ g_titled' = FALSE
  /\ g_title' = <<>>
  /\ g_body' = <<>>
  /\ g_wf' = (g_wf /\ g_ctx = "top")
  /\ g_exp_names' = IF g_wf /\ g_ctx = "top" THEN g_exp_names ELSE {}
  /\ g_exp_links' = IF g_wf /\ g_ctx = "top" THEN g_exp_links ELSE {}
  /\ UNCHANGED <<uuids, links, clock, last_article_map_len, debug_build,
                 g_pages, g_texts, g_extra, g_blTitles, g_rdTitles,
                 callVars,
                 amVars, wpVars, pqVars, run2Vars, apiVars, extVars>>

\* The pairs of state and event one of the arms above takes.
ArmTaken(st, e) ==
  \/ st = "Ignore" /\ e = Ev("Start", "page")
  \/ st = "Page" /\ e \in {Ev("Start", "revision"), Ev("Start", "title")}
  \/ st = "MostRecentRevision"
     /\ e \in {Ev("Start", "text"), Ev("End", "revision")}
  \/ st = "Title" /\ (e.type = "Text" \/ e = Ev("End", "title"))
  \/ st = "Text" /\ (e.type = "Text" \/ e = Ev("End", "text"))
  \/ e = EofEvent

\* A last arm that sends the parser to Ignore: (_, _) => Ignore
RA_default_to_ignore ==
  /\ ra_pc = "reading"
  /\ \E e \in DocEvents : ~ArmTaken(state, e) /\ RA_goto(e, "Ignore")

\* (state, _) => state
RA_default ==
  /\ ra_pc = "reading"
  /\ \E e \in DocEvents : ~ArmTaken(state, e) /\ RA_goto(e, state)

RA_Next ==
  \/ RA_page_start
  \/ RA_revision_start
  \/ RA_title_start
  \/ RA_text_start
  \/ RA_revision_end
  \/ RA_title_text
  \/ RA_title_end
  \/ RA_text_text
  \/ RA_text_end
  \/ RA_eof
  \/ RA_default

AmIdle == am_n = 0 /\ am_k = 0

InitRA == AmIdle /\ WP_Idle /\ PQ_Idle /\ RA_Init /\ API_Idle /\ EXT_Idle

SpecRA == InitRA /\ [][RA_Next]_vars


\* The page being read is a record one of the two filters suppresses.
DocSuppressed ==
  g_ctx # "top" /\ (DocBlacklisted(g_title) \/ DocRedirect(g_body))

\* The step makes no insert_article and no insert_link call.
NoInsertCall ==
  g_ncalls' = g_ncalls /\ uuids' = uuids /\ links' = links

\* The links of the ArticleMap, by name.
NameLinks ==
  {p \in (DOMAIN uuids) \X (DOMAIN uuids) :
     uuids[p[1]] \in DOMAIN links /\ uuids[p[2]] \in links[uuids[p[1]]]}

\* C6, as amended: the title of a page with a blacklisted prefix is never
\* passed to insert_article as the source of a record, so no key of links is
\* its id; it is a key of uuids only when the body of some record links to
\* it.
C6_BlacklistedNeverSource ==
  \A T \in g_blTitles :
    /\ T \notin g_src
    /\ T \in DOMAIN uuids => T \in g_dst /\ uuids[T] \notin DOMAIN links

\* A page with a blacklisted title was read, no debug_assert! failed, the
\* parse returned, and the title is a key of uuids.
C6_Witness ==
  /\ ra_pc = "done" /\ debug_build
  /\ \E T \in g_blTitles : T \in DOMAIN uuids /\ T \notin g_src

\* C6, as stated: after parsing, the title of a page with a blacklisted
\* prefix is not a key of uuids, and no link has that record as its source
\* (stated of the archives on which every debug_assert! holds).
C6_BlacklistedNeverKey ==
  (ra_pc = "done" /\ debug_build) =>
    \A T \in g_blTitles :
      /\ T \notin DOMAIN uuids
      /\ \A p \in NameLinks : p[1] # T

C8_SuppressedRecordMakesNoCall ==
  [][DocSuppressed => NoInsertCall]_vars

\* C9: once read_archive has processed the close of the first revision of a
\* record with the body [[B|S]] (title not blacklisted, read into src as it
\* stands in the page), uuids has the article B, links holds the link from
\* the record to B, and no article is named S.
C9_PipedLinkResolvesTarget ==
  ( /\ ra_pc = "reading" /\ state = "Ignore"
    /\ g_ctx = "page" /\ g_revs = 1
    /\ g_title # <<>> /\ ~DocBlacklisted(g_title) /\ src = g_title
    /\ g_body = BodyPiped /\ content = g_body )
  => /\ <<g_title, NameB>> \in NameLinks
     /\ <<"S">> \notin DOMAIN uuids

\* C10: after read_archive has parsed an archive of well-formed records
\* that no filter suppresses, the keys of uuids are the titles and the link
\* targets of the records, distinct names have distinct ids, and links has
\* exactly one key for each record with a link, mapped to the ids of its
\* targets.
C10_MapIsTitlesAndTargets ==
  (ra_pc = "done" /\ g_wf) =>
    /\ DOMAIN uuids = g_exp_names
    /\ \A a, b \in DOMAIN uuids : uuids[a] = uuids[b] => a = b
    /\ NameLinks = g_exp_links
    /\ \A k \in DOMAIN links :
         links[k] # {} /\ \E a \in DOMAIN uuids : uuids[a] = k


\* C11: read_archive makes insert_article and insert_link calls only at the
\* close of the first revision of a page, hence at most once per page, and
\* while it reads a later revision of the page it neither changes the body
\* buffer nor makes such a call.
C11_OneRevisionPerPage ==
  [][ /\ g_ncalls' # g_ncalls
           => g_revs = 1 /\ g_ctx = "revision" /\ g_ctx' = "page"
      /\ (g_revs > 1 /\ ra_pc' = "reading")
           => content' = content /\ NoInsertCall ]_vars

\* The page A with body [[B]] was inserted at the close of its first
\* revision, and the text of its second revision has been read.
C11_Witness ==
  /\ ra_pc = "reading" /\ debug_build
  /\ g_pages = 1 /\ g_revs = 2 /\ g_ctx = "revision" /\ g_texts = 3
  /\ g_src = {NameA} /\ content = BodyLinkB /\ g_ncalls = 3

(***************************************************************************)
(* The ArticleMap interface.  A client calls insert_article, insert_link   *)
(* and, with content-derived ids, article_uuid, in any order, on the       *)
(* ArticleMap of src/src/indexer.rs (time-ordered ids, variant "time") or  *)
(* on the one of src/inserter/src/main.rs (content-derived ids, variant    *)
(* "hash").  The map is held in uuids and links.                           *)
(***************************************************************************)
\* Largest number of calls a client makes.
MaxCalls == 5

\* The names a client passes.
ApiNames == {NameA, NameB}

\* Params::new(): the parameters of blake2b_simd a program starts from
\* (a digest of 64 bytes, no key, no salt, no personalisation).
ParamsNew == [hash_length |-> 64, key |-> <<>>, salt |-> <<>>,
              personal |-> <<>>]

\* Params::hash: the digest of `input` under `params`, a term over both
\* (distinct parameters or inputs give distinct digests), and
\* Uuid::from_slice of it, which is defined for 16 bytes.
Blake2bUuid(params, input) == <<"blake2b", params, input>>

\* HASHER_PARAMS of src/inserter/src/main.rs, src/src/common/lib.rs and
\* src/src/util.rs: each program builds its own, once.
HASHER_PARAMS == [ParamsNew EXCEPT !.hash_length = 16]
COMMON_HASHER_PARAMS == [ParamsNew EXCEPT !.hash_length = 16]
UTIL_HASHER_PARAMS == [ParamsNew EXCEPT !.hash_length = 16]

\* article_uuid that hashes the name together with the size of the map at
\* the time of the call.
article_uuid_of_map(name) ==
  Blake2bUuid(HASHER_PARAMS, <<name, Cardinality(DOMAIN uuids)>>)

\* article_uuid of src/inserter/src/main.rs
article_uuid(name) == Blake2bUuid(HASHER_PARAMS, name)

\* article_uuid of src/src/common/lib.rs
common_article_uuid(name) == Blake2bUuid(COMMON_HASHER_PARAMS, name)

\* article_uuid of src/src/util.rs
util_article_uuid(name) == Blake2bUuid(UTIL_HASHER_PARAMS, name)

\* The programs that have an article_uuid, and what a call of it returns.
ArticleUuidOps ==
  {"article_uuid", "common::article_uuid", "util::article_uuid"}
ArticleUuidOf(op, name) ==
  CASE op = "article_uuid" -> article_uuid(name)
    [] op = "common::article_uuid" -> common_article_uuid(name)
    [] op = "util::article_uuid" -> util_article_uuid(name)

\* ArticleMap::insert_article of src/inserter/src/main.rs
insert_article_hash(u, name) ==
  IF name \in DOMAIN u
  THEN [uuids |-> u, uuid |-> u[name]]
  ELSE [uuids |-> [n \in DOMAIN u \cup {name} |->
                     IF n = name THEN article_uuid(name) ELSE u[n]],
        uuid |-> article_uuid(name)]

\* A call of the log.
Call(op, arg, ret) == [op |-> op, arg |-> arg, ret |-> ret]

\* The ids the calls made so far have returned: the ids the client holds.
HeldIds == {api_log[i].ret[1] : i \in {j \in DOMAIN api_log :
                                          api_log[j].ret # <<>>}}

API_Init ==
  /\ variant \in {"time", "hash"}
  /\ api_log = <<>>
  /\ ra_pc = "idle"
  /\ state = "Ignore"
  /\ src = <<>>
  /\ content = <<>>
  /\ uuids = [n \in {} |-> 0]
  /\ links = [k \in {} |-> {}]
  /\ clock = 1
  /\ last_article_map_len = 0
  /\ debug_build = TRUE
  /\ g_ctx = "top"
  /\ g_pages = 0
  /\ g_revs = 0
  /\ g_texts = 0
  /\ g_extra = 0
  /\ g_titled = FALSE
  /\ g_title = <<>>
  /\ g_body = <<>>
  /\ g_blTitles = {}
  /\ g_rdTitles = {}
  /\ g_src = {}
  /\ g_dst = {}
  /\ g_ncalls = 0
  /\ g_wf = TRUE
  /\ g_exp_names = {}
  /\ g_exp_links = {}
  /\ uuids2 = [n \in {} |-> 0]
  /\ links2 = [k \in {} |-> {}]
  /\ clock2 = SecondRunStart

\* article_map.insert_article(name)
API_insert_article ==
  /\ Len(api_log) < MaxCalls
  /\ \E name \in ApiNames :
       LET t == insert_article(uuids, clock, name)
           h == insert_article_hash(uuids, name)
       IN /\ uuids' = IF variant = "time" THEN t.uuids ELSE h.uuids
          /\ clock' = IF variant = "time" THEN t.clock ELSE clock
          /\ api_log' = Append(api_log,
                          Call("insert_article", <<name>>,
                               <<IF variant = "time" THEN t.uuid ELSE h.uuid>>))
  /\ UNCHANGED <<links, variant>>
  /\ UNCHANGED <<ra_pc, state, src, content, last_article_map_len, debug_build,
                 docVars, callVars, run2Vars, amVars, wpVars, pqVars, extVars>>

\* article_map.insert_link(src_uuid, dst_uuid), with ids the client holds
API_insert_link ==
  /\ Len(api_log) < MaxCalls
  /\ \E src_uuid \in HeldIds, dst_uuid \in HeldIds :
       /\ links' = insert_link(links, src_uuid, dst_uuid)
       /\ api_log' = Append(api_log,
                       Call("insert_link", <<src_uuid, dst_uuid>>, <<>>))
  /\ UNCHANGED <<uuids, clock, variant>>
  /\ UNCHANGED <<ra_pc, state, src, content, last_article_map_len, debug_build,
                 docVars, callVars, run2Vars, amVars, wpVars, pqVars, extVars>>

\* article_uuid(name), called outside the map as the explorer does, by any
\* of the programs that have it
API_article_uuid ==
  /\ Len(api_log) < MaxCalls
  /\ variant = "hash"
  /\ \E op \in ArticleUuidOps, name \in ApiNames :
       api_log' = Append(api_log,
                    Call(op, <<name>>, <<ArticleUuidOf(op, name)>>))
  /\ UNCHANGED <<uuids, links, clock, variant>>
  /\ UNCHANGED <<ra_pc, state, src, content, last_article_map_len, debug_build,
                 docVars, callVars, run2Vars, amVars, wpVars, pqVars, extVars>>

API_Next ==
  \/ API_insert_article
  \/ API_insert_link
  \/ API_article_uuid

InitAPI == AmIdle /\ WP_Idle /\ PQ_Idle /\ API_Init /\ EXT_Idle

SpecAPI == InitAPI /\ [][API_Next]_vars

\* The last call made.
LastCall == api_log[Len(api_log)]

\* The step makes a call.
Calls == Len(api_log') = Len(api_log) + 1

\* The ids the calls `op`(name) made so far have returned.
Returned(op, name) ==
  {api_log[i].ret[1] : i \in {j \in DOMAIN api_log :
       api_log[j].op = op /\ api_log[j].arg = <<name>>}}

\* C12: a call insert_article(n) that follows an earlier call
\* insert_article(n), whatever insert_article and insert_link calls were made
\* before and in between, returns the id the earlier call returned and leaves
\* uuids and links as they are, with time-ordered and with content-derived
\* ids.
C12_InsertArticleIdempotent ==
  [][ \A name \in ApiNames :
        ( /\ Calls
          /\ LastCall'.op = "insert_article" /\ LastCall'.arg = <<name>>
          /\ Returned("insert_article", name) # {} )
        => /\ Returned("insert_article", name) = {LastCall'.ret[1]}
           /\ uuids' = uuids
           /\ links' = links
           /\ clock' = clock ]_vars

\* insert_article(A), insert_article(B), a link between them, and
\* insert_article(A) again, with time-ordered ids.
C12_Witness ==
  /\ variant = "time" /\ Len(api_log) = 4
  /\ api_log[1].op = "insert_article" /\ api_log[1].arg = <<NameA>>
  /\ api_log[2].op = "insert_article" /\ api_log[2].arg = <<NameB>>
  /\ api_log[3].op = "insert_link"
  /\ api_log[4] = Call("insert_article", <<NameA>>, <<1>>)
  /\ clock = 3

\* The calls made so far include insert_link(src_uuid, dst_uuid).
LinkInserted(src_uuid, dst_uuid) ==
  \E i \in DOMAIN api_log :
     api_log[i].op = "insert_link" /\ api_log[i].arg = <<src_uuid, dst_uuid>>

\* C13: after a call insert_link(src, dst) the set links[src] holds dst, and
\* a call insert_link(src, dst) that follows an earlier call with the same
\* pair, whatever pairs were inserted in between, leaves links (and uuids)
\* as they are.
C13_InsertLinkSetIdempotent ==
  [][ \A src_uuid \in HeldIds, dst_uuid \in HeldIds :
        ( /\ Calls
          /\ LastCall'.op = "insert_link"
          /\ LastCall'.arg = <<src_uuid, dst_uuid>> )
        => /\ src_uuid \in DOMAIN links'
           /\ dst_uuid \in links'[src_uuid]
           /\ LinkInserted(src_uuid, dst_uuid)
                => links' = links /\ uuids' = uuids ]_vars

\* The pair (1, 2) inserted, then the pair (1, 1), then (1, 2) again.
C13_Witness ==
  /\ variant = "time" /\ Len(api_log) = 5
  /\ api_log[3] = Call("insert_link", <<1, 2>>, <<>>)
  /\ api_log[4] = Call("insert_link", <<1, 1>>, <<>>)
  /\ api_log[5] = Call("insert_link", <<1, 2>>, <<>>)
  /\ links = [k \in {1} |-> {1, 2}]

\* The ids insert_article has stored: the values of uuids.
StoredIds(u) == {u[n] : n \in DOMAIN u}

\* C14: in every state of read_archive, every key of links and every member
\* of a set of links is the id uuids holds for some name.
C14_LinkIdsAreArticleIds ==
  \A k \in DOMAIN links :
     k \in StoredIds(uuids) /\ links[k] \subseteq StoredIds(uuids)

\* Two pages read, A and B, each with a link to B.
C14_Witness ==
  /\ ra_pc = "reading" /\ debug_build
  /\ uuids = (NameA :> 1 @@ NameB :> 2)
  /\ links = (1 :> {2} @@ 2 :> {2})

\* C15: no step of read_archive removes a name from uuids, changes the id
\* of a name, removes a key from links or removes a member from a set of
\* links.
C15_GraphOnlyGrows ==
  [][ /\ DOMAIN uuids \subseteq DOMAIN uuids'
      /\ \A n \in DOMAIN uuids : uuids'[n] = uuids[n]
      /\ DOMAIN links \subseteq DOMAIN links'
      /\ \A k \in DOMAIN links : links[k] \subseteq links'[k] ]_vars

\* Two pages titled A read, the first with a link to B, the second with a
\* link to WP:A: the second adds to the set the first created.
C15_Witness ==
  /\ ra_pc = "reading" /\ debug_build /\ g_pages = 2 /\ g_extra = 0
  /\ uuids = (NameA :> 1 @@ NameB :> 2 @@ TitleWPA :> 3)
  /\ links = (1 :> {2, 3})

\* The Uuid is built from a digest of 16 bytes.
Is128Bit(uuid) == uuid[1] = "blake2b" /\ uuid[2].hash_length * 8 = 128

C17_RerunYieldsSameMap ==
  (ra_pc = "done" /\ debug_build) => uuids2 = uuids /\ links2 = links

\* The batches of insert_articles passed to bulk_insert, in order.
ArticleBatches == SelectSeq(wp_started, LAMBDA b : ~HasEdge(b))

CeilDiv(a, b) == (a + b - 1) \div b

\* insert_articles has returned.
ArticlesInserted == wp_phase \in {"links", "finished"}

\* C18 as stated: when insert_articles has returned for an ArticleMap of N
\* articles, ceil(N / REQUEST_BUFFER_SIZE) batches were emitted.
C18_CeilArticlesOverThreshold ==
  ArticlesInserted
    => Len(ArticleBatches) = CeilDiv(am_n, REQUEST_BUFFER_SIZE)

\* C18, amended: the threshold counts items and insert_articles pushes two
\* items per article.  When insert_articles has returned for an ArticleMap
\* of N articles, exactly ceil(2N / REQUEST_BUFFER_SIZE) batches were
\* emitted, each of REQUEST_BUFFER_SIZE items except a last one of
\* 2N mod REQUEST_BUFFER_SIZE items when that is not zero, and the
\* bulk_insert of every one of them has completed.
C18_BatchesOfItems ==
  ArticlesInserted
    => /\ Len(ArticleBatches) = CeilDiv(2 * am_n, REQUEST_BUFFER_SIZE)
       /\ \A i \in DOMAIN ArticleBatches :
            Len(ArticleBatches[i]) =
              IF i < Len(ArticleBatches)
                 \/ (2 * am_n) % REQUEST_BUFFER_SIZE = 0
              THEN REQUEST_BUFFER_SIZE
              ELSE (2 * am_n) % REQUEST_BUFFER_SIZE
       /\ Range(ArticleBatches) \subseteq wp_completed

\* insert_articles has returned for five articles: two full batches and a
\* last one of two items.
C18_Witness ==
  /\ wp_phase = "links" /\ am_n = 5
  /\ Len(ArticleBatches) = 3
  /\ Len(ArticleBatches[3]) = 2

\* The batches push and flush have handed to requests.send so far.
WP_handed_off ==
  Range(wp_started) \cup Range(wp_chan)
    \cup (IF wp_pc \in {"send", "flush_send"} THEN {wp_pending} ELSE {})

\* C19: a batch handed off holds the Vertex item of an article exactly when
\* it holds the VertexProperty item of that article.
C19_VertexWithItsProperty ==
  \A batch \in WP_handed_off : \A a \in 1..am_n :
     Vertex(a) \in Range(batch) <=> VertexProperty(a) \in Range(batch)

\* Of seven articles the first two are inside bulk_insert or past it and
\* push is handing off the batch of the third and the fourth.
C19_Witness ==
  /\ am_n = 7 /\ wp_phase = "articles" /\ wp_pc = "send"
  /\ Len(wp_started) = 1
  /\ wp_pending = <<Vertex(3), VertexProperty(3),
                    Vertex(4), VertexProperty(4)>>

\* A bulk_insert call has returned an error: a batch was passed to
\* bulk_insert, the call is over and it did not complete.
WP_store_failed ==
  \E k \in DOMAIN wp_started :
     /\ wp_started[k] \notin wp_completed
     /\ \A i \in Workers :
          ~(wp_workers[i].st = "insert" /\ wp_workers[i].batch = wp_started[k])

C21_EofAcceptedInEveryState ==
  /\ [](ra_pc = "reading" => ENABLED RA_eof)
  /\ [][ /\ (ra_pc = "reading" /\ state' = "Returned")
              => ra_pc' = "done" /\ uuids' = uuids /\ links' = links
         /\ (uuids' # uuids \/ links' # links)
              => g_ctx = "revision" /\ g_ctx' = "page" ]_vars

\* The stream ended inside the second page, after its title and body text
\* and before the close of its revision; the map returned holds the first
\* page only.
C21_Witness ==
  /\ ra_pc = "done" /\ debug_build /\ ~g_wf
  /\ g_pages = 2 /\ g_texts = 4 /\ g_extra = 0
  /\ g_ncalls = 1 /\ g_src = {NameA}
  /\ uuids = (NameA :> 1)

\* The step delivers, inside the title or the first revision of a page, a
\* text event whose bytes are not valid UTF-8.
InvalidTextRead ==
  \/ /\ Len(g_title') > Len(g_title)
     /\ DocInvalid(SubSeq(g_title', Len(g_title) + 1, Len(g_title')))
  \/ /\ Len(g_body') > Len(g_body)
     /\ DocInvalid(SubSeq(g_body', Len(g_body) + 1, Len(g_body')))

\* read_archive has ended without a map after this step.
EndsWithoutMap ==
  ra_pc' \in {"error", "panicked"} /\ uuids' = uuids /\ links' = links

\* C22 as stated: a text event whose bytes are not valid UTF-8 ends
\* read_archive without a map, whatever the state of the parser.
C22_InvalidTextIsFatal ==
  [][ (debug_build /\ InvalidTextRead) => EndsWithoutMap ]_vars

\* C22, amended: a text event whose bytes are not valid UTF-8 and that is
\* read in state Title or Text ends read_archive without a map (with the
\* Utf8Error, or with the panic of the debug_assert! before the decoding),
\* and read_archive takes no step after it has ended.
C22_InvalidTextIsFatalWhereDecoded ==
  [][ /\ (InvalidTextRead /\ state \in {"Title", "Text"}) => EndsWithoutMap
      /\ ra_pc = "reading" ]_vars

\* The body of the second page is not valid UTF-8: read_archive has
\* returned the error and the map of the first page is lost with it.
C22_Witness ==
  /\ ra_pc = "error" /\ state = "Text" /\ debug_build
  /\ g_pages = 2 /\ g_ctx = "text" /\ g_body = BadText
  /\ DOMAIN uuids = {NameA, NameB}

\* The step reads a start or end tag of an element of another name: the
\* parser goes on and the position in the document is what it was (every
\* other event moves it: a tag of page, title, revision or text changes the
\* element the reader is inside, a text event is counted).
OtherTagRead ==
  /\ ra_pc = "reading" /\ ra_pc' = "reading"
  /\ g_ctx' = g_ctx /\ g_texts' = g_texts /\ g_pages' = g_pages

\* C23: a start or end tag whose name is none of page, revision, title,
\* text leaves the parser state, the title buffer, the body buffer, uuids
\* and links as they are, in every state.
C23_OtherTagsIgnored ==
  [][ OtherTagRead
        => UNCHANGED <<state, src, content, uuids, links, clock>> ]_vars

\* A tag of an element of another name arrives inside the text element of
\* a page while the parser is in state Text with a body read, and reading
\* it leads to this same state.
C23_Witness ==
  /\ ra_pc = "reading" /\ state = "Text" /\ g_ctx = "text"
  /\ src = NameA /\ content = BodyLinkB
  /\ Ev("Start", "ns") \in DocEvents
  /\ ~ArmTaken(state, Ev("Start", "ns"))
  /\ ENABLED (RA_default /\ UNCHANGED vars)

\* The batches handed to requests.send so far, in hand-off order: the
\* channel is first-in first-out, so the workers received them in the
\* order they were sent.
WP_handoff_seq ==
  wp_started \o wp_chan
    \o (IF wp_pc \in {"send", "flush_send"} THEN <<wp_pending>> ELSE <<>>)

\* The items run() pushes, in order: those of insert_articles, then those
\* of insert_links.
AllItems == ArticleItems(am_n) \o LinkItems(am_n, am_k)

\* The number of items pushed so far.
WP_pushed ==
  CASE wp_phase = "articles" -> wp_pos - 1
    [] wp_phase = "links" -> 2 * am_n + wp_pos - 1
    [] wp_phase = "finished" -> Len(AllItems)

IsPrefix(s, t) == Len(s) <= Len(t) /\ s = SubSeq(t, 1, Len(s))

\* C24: the batches handed off, taken in hand-off order and followed by the
\* buffer, concatenate to the sequence of the items pushed so far: every
\* batch is a contiguous segment of the push sequence, in push order.
C24_BatchesKeepPushOrder ==
  /\ IsPrefix(Flatten(WP_handoff_seq) \o wp_buf, AllItems)
  /\ wp_phase \in {"articles", "links", "finished"} /\ wp_pc # "new"
       => Len(Flatten(WP_handoff_seq) \o wp_buf) = WP_pushed

\* In the links phase, with three article batches received, a link batch
\* waiting on the channel and a fifth link in the buffer.
C24_Witness ==
  /\ wp_phase = "links" /\ wp_pc = "push"
  /\ Len(wp_started) = 3
  /\ wp_chan # <<>> /\ HasEdge(wp_chan[1])
  /\ wp_buf = <<Edge(LinkPair(am_n, 5)[1], LinkPair(am_n, 5)[2])>>

\* The items pushed so far, in order: those handed off and those in buf.
WP_pushed_items == Flatten(WP_handoff_seq) \o wp_buf

\* The number of times `item` was pushed.
TimesPushed(item) ==
  Cardinality({i \in DOMAIN WP_pushed_items : WP_pushed_items[i] = item})

\* The entries of uuids (article a has uuid a) and the pairs of links of the
\* ArticleMap dispatched.
MapArticles == 1..am_n
MapLinks == {LinkPair(am_n, r) : r \in 1..am_k}

\* C25: when insert_articles has returned, each entry of uuids has had its
\* Vertex and its VertexProperty pushed once and nothing else was pushed;
\* when insert_links has returned too, each (src, dst) of links has had its
\* Edge pushed once and no other Edge was pushed.
C25_OneItemPerEntry ==
  /\ ArticlesInserted
       => /\ \A a \in MapArticles :
               TimesPushed(Vertex(a)) = 1 /\ TimesPushed(VertexProperty(a)) = 1
          /\ \A i \in DOMAIN WP_pushed_items :
               \/ WP_pushed_items[i].kind \in {"Vertex", "VertexProperty"}
                  /\ WP_pushed_items[i].id \in MapArticles
               \/ WP_pushed_items[i].kind = "Edge"
                  /\ <<WP_pushed_items[i].id, WP_pushed_items[i].dst>>
                       \in MapLinks
  /\ wp_phase = "finished"
       => /\ \A p \in MapLinks : TimesPushed(Edge(p[1], p[2])) = 1
          /\ Len(WP_pushed_items) = 2 * am_n + am_k

\* A finished run for three articles and five links.
C25_Witness ==
  /\ wp_phase = "finished" /\ am_n = 3 /\ am_k = 5
  /\ Len(WP_pushed_items) = 11
  /\ TimesPushed(Edge(2, 2)) = 1

-----------------------------------------------------------------------------
\* load_article_map of src/inserter/src/main.rs and the dump file (SpecLD).
\* The dump is a sequence of fields in bincode's layout: the number of
\* entries of uuids, then each name and its id; the number of entries of
\* links, then each source id, the size of its set and the set's members.
\* HashMap and HashSet iterate in an arbitrary order, so a map has several
\* serializations.

MaxLoads == 3

\* An archive reduced to its records: a title and the link targets of its text.
Rec(title, targets) == [title |-> title, targets |-> targets]

LdArchives ==
  { <<>>,
    <<Rec(NameB, <<>>)>>,
    <<Rec(NameA, <<NameB>>)>>,
    <<Rec(NameA, <<NameB>>), Rec(NameB, <<NameA, NameB>>)>> }

\* The calls read_archive makes for one record: insert_article(title), then
\* insert_article and insert_link for each target.
RECURSIVE LD_insert_targets(_, _, _)
LD_insert_targets(m, src_uuid, targets) ==
  IF targets = <<>> THEN m
  ELSE LET a == insert_article_hash(m.uuids, Head(targets))
       IN  LD_insert_targets(
             [uuids |-> a.uuids,
              links |-> insert_link(m.links, src_uuid, a.uuid)],
             src_uuid, Tail(targets))

RECURSIVE LD_read_records(_, _)
LD_read_records(m, recs) ==
  IF recs = <<>> THEN m
  ELSE LET a == insert_article_hash(m.uuids, Head(recs).title)
       IN  LD_read_records(
             LD_insert_targets([uuids |-> a.uuids, links |-> m.links],
                               a.uuid, Head(recs).targets),
             Tail(recs))

LD_read_archive(archive) == LD_read_records(EmptyMap, archive)

\* The orders in which a set can be iterated.
Perms(S) ==
  {f \in [1..Cardinality(S) -> S] :
     \A i, j \in 1..Cardinality(S) : f[i] = f[j] => i = j}

SetOrders(l) ==
  {g \in [DOMAIN l -> UNION {Perms(l[k]) : k \in DOMAIN l}] :
     \A k \in DOMAIN l : g[k] \in Perms(l[k])}

\* bincode::serialize_into: the field sequences it may write for a map.
serialize_into(map) ==
  LET u == map.uuids
      l == map.links
  IN  { <<Cardinality(DOMAIN u)>>
        \o Flatten([i \in 1..Cardinality(DOMAIN u) |-> <<pu[i], u[pu[i]]>>])
        \o <<Cardinality(DOMAIN l)>>
        \o Flatten([i \in 1..Cardinality(DOMAIN l) |->
                      <<pl[i], Cardinality(l[pl[i]])>> \o ps[pl[i]]]) :
        pu \in Perms(DOMAIN u), pl \in Perms(DOMAIN l), ps \in SetOrders(l) }

\* Reading n (name, id) entries from position pos.
RECURSIVE ReadUuids(_, _, _, _)
ReadUuids(b, pos, n, acc) ==
  IF n = 0 THEN [ok |-> TRUE, pos |-> pos, val |-> acc]
  ELSE IF pos + 1 > Len(b) THEN [ok |-> FALSE, pos |-> pos, val |-> acc]
  ELSE ReadUuids(b, pos + 2, n - 1, (b[pos] :> b[pos + 1]) @@ acc)

\* Reading the n members of a set from position pos.
RECURSIVE ReadSet(_, _, _, _)
ReadSet(b, pos, n, acc) ==
  IF n = 0 THEN [ok |-> TRUE, pos |-> pos, val |-> acc]
  ELSE IF pos > Len(b) THEN [ok |-> FALSE, pos |-> pos, val |-> acc]
  ELSE ReadSet(b, pos + 1, n - 1, acc \cup {b[pos]})

\* Reading n (id, set) entries from position pos.
RECURSIVE ReadLinks(_, _, _, _)
ReadLinks(b, pos, n, acc) ==
  IF n = 0 THEN [ok |-> TRUE, pos |-> pos, val |-> acc]
  ELSE IF pos + 1 > Len(b) THEN [ok |-> FALSE, pos |-> pos, val |-> acc]
  ELSE LET s == ReadSet(b, pos + 2, b[pos + 1], {})
       IN  IF ~s.ok THEN [ok |-> FALSE, pos |-> s.pos, val |-> acc]
           ELSE ReadLinks(b, s.pos, n - 1, (b[pos] :> s.val) @@ acc)

\* The two tables read from a field sequence, as far as the fields go.
ReadMap(b) ==
  IF Len(b) = 0 THEN [ok |-> FALSE, map |-> EmptyMap]
  ELSE LET u == ReadUuids(b, 2, b[1], <<>>)
       IN  IF ~u.ok \/ u.pos > Len(b)
           THEN [ok |-> FALSE, map |-> [uuids |-> u.val, links |-> <<>>]]
           ELSE LET l == ReadLinks(b, u.pos + 1, b[u.pos], <<>>)
                IN  [ok |-> l.ok, map |-> [uuids |-> u.val, links |-> l.val]]

\* A reader that returns what it has read when the fields run out.
deserialize_from_lenient(bytes) == [ok |-> TRUE, map |-> ReadMap(bytes).map]

\* bincode::deserialize_from: an Err when the fields run out early.
deserialize_from(bytes) ==
  IF ReadMap(bytes).ok THEN ReadMap(bytes)
  ELSE [ok |-> FALSE, map |-> EmptyMap]

LdOk(map, archive) ==
  [called |-> TRUE, ok |-> TRUE, map |-> map, input |-> archive]
LdErr(archive) ==
  [called |-> TRUE, ok |-> FALSE, map |-> EmptyMap, input |-> archive]

LD_Init == LD_Idle

\* One call of load_article_map; archive is the content of input_filepath
\* at the time of the call. A failed File::open, read_archive or File::create
\* leaves no dump; a serialize_into that fails part-way leaves a file with
\* the fields written so far.
LD_load_article_map ==
  /\ ld_calls < MaxLoads
  /\ ld_calls' = ld_calls + 1
  /\ \E archive \in LdArchives :
       IF dump.exists
       THEN /\ ld_ret' = IF deserialize_from(dump.bytes).ok
                         THEN LdOk(deserialize_from(dump.bytes).map, archive)
                         ELSE LdErr(archive)
            /\ UNCHANGED <<dump, ld_written, ld_reads>>
       ELSE /\ ld_reads' = ld_reads + 1
            /\ \E fault \in {"none", "read", "create", "write"} :
                 LET article_map == LD_read_archive(archive)
                 IN  CASE fault \in {"read", "create"} ->
                            /\ ld_ret' = LdErr(archive)
                            /\ UNCHANGED <<dump, ld_written>>
                       [] fault = "write" ->
                            /\ \E bytes \in serialize_into(article_map) :
                               \E cut \in 0..(Len(bytes) - 1) :
                                 dump' = [exists |-> TRUE,
                                          bytes |-> SubSeq(bytes, 1, cut)]
                            /\ ld_ret' = LdErr(archive)
                            /\ UNCHANGED ld_written
                       [] fault = "none" ->
                            /\ \E bytes \in serialize_into(article_map) :
                                 dump' = [exists |-> TRUE, bytes |-> bytes]
                            /\ ld_written' = [some |-> TRUE, map |-> article_map]
                            /\ ld_ret' = LdOk(article_map, archive)
  /\ UNCHANGED <<raVars, docVars, callVars, run2Vars, apiVars,
                 amVars, wpVars, pqVars>>
  /\ UNCHANGED extButLd

LD_Next == LD_load_article_map

InitLD == AmIdle /\ WP_Idle /\ PQ_Idle /\ RA_Idle /\ API_Idle /\ LD_Init /\ EQ_Idle /\ RC_Idle /\ SV_Idle /\ LF_Idle

SpecLD == InitLD /\ [][LD_Next]_vars

\* C26: a call of load_article_map that finds no dump file reads the
\* archive and, when it returns a map, that map is the one parsed from the
\* archive and the dump holds a serialization of it; a call that finds the
\* dump file does not read the archive, leaves the dump as it is, and a map
\* it returns equals, uuids and links, the map written by the earlier call.
C26_DumpRoundTrip ==
  [][ ld_calls' = ld_calls + 1 =>
        /\ ~dump.exists =>
             /\ ld_reads' = ld_reads + 1
             /\ ld_ret'.ok =>
                  /\ ld_ret'.map = LD_read_archive(ld_ret'.input)
                  /\ dump'.exists
                  /\ dump'.bytes \in serialize_into(ld_ret'.map)
                  /\ ld_written' = [some |-> TRUE, map |-> ld_ret'.map]
        /\ dump.exists =>
             /\ ld_reads' = ld_reads
             /\ dump' = dump
             /\ ld_ret'.ok =>
                  /\ ld_written.some
                  /\ ld_ret'.map.uuids = ld_written.map.uuids
                  /\ ld_ret'.map.links = ld_written.map.links ]_vars

\* The second call finds the dump of the first and returns its map of two
\* articles and three links, while the archive now holds one article.
C26_Witness ==
  /\ ld_calls = 2 /\ ld_reads = 1
  /\ ld_ret.ok
  /\ ld_ret.input = <<Rec(NameB, <<>>)>>
  /\ DOMAIN ld_ret.map.uuids = {NameA, NameB}
  /\ ld_ret.map.links =
       (article_uuid(NameA) :> {article_uuid(NameB)})
       @@ (article_uuid(NameB) :> {article_uuid(NameA), article_uuid(NameB)})
  /\ ld_ret.map = ld_written.map

\* C27: a batch handed off by push has exactly REQUEST_BUFFER_SIZE items; a
\* batch handed off by flush is not empty and is the only one that may be
\* smaller; no empty batch is sent on the channel; when push returns the
\* buffer holds fewer than REQUEST_BUFFER_SIZE items.
PushHandsOff == wp_pc = "push" /\ wp_pc' = "send"
FlushHandsOff == wp_pc = "push" /\ wp_pc' = "flush_send"
PushReturns ==
  \/ wp_pc = "push" /\ wp_pos' = wp_pos + 1 /\ wp_pc' = "push"
  \/ wp_pc = "send" /\ wp_pc' = "push"
C27_BatchSizes ==
  /\ [](\A i \in DOMAIN WP_handoff_seq :
          Len(WP_handoff_seq[i]) \in 1..REQUEST_BUFFER_SIZE)
  /\ [][ /\ PushHandsOff => Len(wp_pending') = REQUEST_BUFFER_SIZE
         /\ FlushHandsOff => Len(wp_pending') \in 1..REQUEST_BUFFER_SIZE
         /\ Len(wp_chan') > Len(wp_chan) =>
              /\ wp_chan'[Len(wp_chan')] = wp_pending
              /\ wp_pending # <<>>
         /\ PushReturns => Len(wp_buf') < REQUEST_BUFFER_SIZE ]_vars

\* Three articles: push handed off a batch of four items, a worker has
\* taken it, and the two items left are handed off by flush.
C27_Witness ==
  /\ wp_phase = "articles" /\ am_n = 3
  /\ wp_pc = "flush_send"
  /\ Len(wp_pending) = 2
  /\ Len(wp_started) = 1 /\ Len(wp_started[1]) = REQUEST_BUFFER_SIZE

\* C28: a batch sent on the channel is received by at most one worker and
\* passed to bulk_insert at most once: no batch is started twice, no two
\* workers hold the same batch, and a batch a worker has taken is no longer
\* on the channel.
C28_BatchToOneWorker ==
  /\ \A i, j \in DOMAIN wp_started : wp_started[i] = wp_started[j] => i = j
  /\ \A i, j \in Workers :
       (i # j /\ wp_workers[i].st = "insert" /\ wp_workers[j].st = "insert")
         => wp_workers[i].batch # wp_workers[j].batch
  /\ \A i \in Workers :
       wp_workers[i].st = "insert" => wp_workers[i].batch \in Range(wp_started)
  /\ \A i \in DOMAIN wp_chan : wp_chan[i] \notin Range(wp_started)

\* Two workers are in bulk_insert at once, each with a batch of its own,
\* while a third batch waits on the channel.
C28_Witness ==
  /\ wp_workers[1].st = "insert" /\ wp_workers[2].st = "insert"
  /\ wp_workers[1].batch # wp_workers[2].batch
  /\ wp_chan # <<>>
  /\ Len(wp_started) = 2

-----------------------------------------------------------------------------
\* The worker pool under fair scheduling.  The tokio runtime polls every task
\* that is ready, async_channel wakes a blocked sender when a slot frees or the
\* channel closes and a blocked receiver when a batch arrives or the channel
\* closes: an operation that stays possible is eventually taken.

\* SpecWPLive: every bulk_insert call returns Ok.
WP_LiveNext ==
  \/ WP_new
  \/ WP_push
  \/ WP_send
  \/ WP_flush
  \/ WP_join
  \/ \E i \in Workers : WP_recv(i)
  \/ \E i \in Workers : WP_recv_closed(i)
  \/ \E i \in Workers : WP_insert_ok(i)

WP_LiveFairness ==
  /\ WF_vars(WP_new)
  /\ WF_vars(WP_push)
  /\ WF_vars(WP_send)
  /\ WF_vars(WP_flush)
  /\ WF_vars(WP_join)
  /\ \A i \in Workers : WF_vars(WP_recv(i))
  /\ \A i \in Workers : WF_vars(WP_recv_closed(i))
  /\ \A i \in Workers : WF_vars(WP_insert_ok(i))

SpecWPLive == InitWP /\ [][WP_LiveNext]_vars /\ WP_LiveFairness

\* SpecWPFair: every bulk_insert call returns, with Ok or with Err.
WP_Fairness ==
  /\ WF_vars(WP_new)
  /\ WF_vars(WP_push)
  /\ WF_vars(WP_send)
  /\ WF_vars(WP_send_closed)
  /\ WF_vars(WP_flush)
  /\ WF_vars(WP_join)
  /\ \A i \in Workers : WF_vars(WP_recv(i))
  /\ \A i \in Workers : WF_vars(WP_recv_closed(i))
  /\ \A i \in Workers : WF_vars(WP_insert_ok(i) \/ WP_insert_err(i))

SpecWPFair == InitWP /\ [][WP_Next]_vars /\ WP_Fairness

\* flush returns: the last worker.await has completed.
FlushReturns == wp_pc = "join" /\ wp_pc' \in {"new", "finished"}

\* C29: when every bulk_insert returns Ok and scheduling is fair, a push
\* waiting in send goes on, a flush that was called returns, the run
\* finishes, and when flush returns the channel is closed and empty and
\* every worker has ended its loop.
C29_FlushTerminates ==
  /\ [](wp_pc = "send" => <>(wp_pc = "push"))
  /\ [](wp_pc \in {"flush_send", "join"} => <>(wp_pc \in {"new", "finished"}))
  /\ <>(wp_phase = "finished")
  /\ [][ FlushReturns =>
           /\ wp_closed /\ wp_chan = <<>>
           /\ \A i \in Workers : wp_workers[i].st = "done" ]_vars

\* The flush of the link phase has returned after six batches: four of
\* vertices, one of four edges and the last of one edge.
C29_Witness ==
  /\ wp_phase = "finished" /\ am_n = 8 /\ am_k = 5
  /\ Len(wp_started) = 6 /\ Len(wp_started[6]) = 1
  /\ wp_closed /\ wp_chan = <<>>
  /\ \A i \in Workers : wp_workers[i].st = "done"

\* C30: when bulk_insert fails in some or all of the workers, the producer
\* does not stay blocked: a send completes or fails, a flush returns or
\* panics, and a run in which a worker has failed ends by panicking.
ProducerWaits == wp_pc \in {"send", "flush_send", "join"}
SomeWorkerFailed == \E i \in Workers : wp_workers[i].st = "panicked"
C30_NoDeadlockOnFailure ==
  /\ [](ProducerWaits => <>(~ProducerWaits))
  /\ <>(wp_phase \in {"finished", "panicked"})
  /\ [](SomeWorkerFailed => <>(wp_phase = "panicked"))

\* Every worker has failed while a batch was on the full channel and the
\* producer was waiting to send another: the send failed and the run
\* panicked.
C30_Witness ==
  /\ wp_phase = "panicked"
  /\ \A i \in Workers : wp_workers[i].st = "panicked"
  /\ wp_pending # <<>>
  /\ Len(wp_chan) = ChanCap

\* C31: the requests sent and not yet awaited are never more than
\* PROMISE_BUFFER_SIZE, they are the newest requests sent, in the order sent,
\* and the requests awaited are the ones sent before them: with a full
\* window the oldest outstanding request is awaited before the next is sent.
PQ_outstanding_from == Len(pq_sent) - Len(pq_promises) + 1
C31_InFlightWindow ==
  /\ Len(pq_promises) <= PROMISE_BUFFER_SIZE
  /\ Len(pq_promises) <= Len(pq_sent)
  /\ pq_promises = SubSeq(pq_sent, PQ_outstanding_from, Len(pq_sent))
  /\ pq_acked = {pq_sent[i] : i \in 1..(PQ_outstanding_from - 1)}
  /\ pq_pc = "window" => Len(pq_promises) = PROMISE_BUFFER_SIZE

\* The window was full when the third batch was ready: the first request
\* has been awaited and the second and third are outstanding.
C31_Witness ==
  /\ pq_phase = "articles" /\ pq_pc = "push"
  /\ Len(pq_sent) = 3
  /\ pq_acked = {pq_sent[1]}
  /\ pq_promises = <<pq_sent[2], pq_sent[3]>>

\* C32: no record mixes the data of two pages: the parser is in state
\* Ignore whenever a page start tag can arrive, and while a page is read in
\* a state that leads to an insert, src is the title text of that page.
C32_NoRecordMixesPages ==
  /\ (ra_pc = "reading" /\ g_ctx = "top") => state = "Ignore"
  /\ (ra_pc = "reading" /\ g_ctx \in {"page", "revision", "text"}
        /\ state \in {"Page", "MostRecentRevision", "Text"})
       => src = g_title

\* C33: whenever the end of a revision is read in state MostRecentRevision,
\* the title buffer src is not empty and the trimmed body is not empty, so
\* no article with an empty name is inserted.
RevisionClosed ==
  ra_pc = "reading" /\ state = "MostRecentRevision"
  /\ g_ctx = "revision" /\ g_ctx' = "page"
C33_RevisionCloseAssertionsHold ==
  /\ [][ RevisionClosed => (src # <<>> /\ Trim(content) # <<>>) ]_vars
  /\ [](<<>> \notin DOMAIN uuids)

-----------------------------------------------------------------------------
\* read_archive of src/src/crawler.rs and read_archive of
\* src/inserter/src/main.rs reading the same events (SpecEQ).  Each match is
\* an operator from the locals and the event to the locals; a debug_assert!
\* is checked when eq_debug holds.

\* The revision close of both: insert_article(src) and, for each capture,
\* insert_article and insert_link.
InsertRecord(m, src_name, text) ==
  LET a == insert_article_hash(m.uuids, src_name)
  IN  LD_insert_targets([uuids |-> a.uuids, links |-> m.links], a.uuid,
                        WikiLinks(text))

\* One iteration of the loop of read_archive of src/src/crawler.rs.
crawler_step(p, e) ==
  IF p.pc # "reading" THEN p
  ELSE
  CASE p.state = "Ignore" /\ e = Ev("Start", "page") ->
         [p EXCEPT !.src = <<>>, !.content = <<>>, !.state = "Page"]
    [] p.state = "Page" /\ e = Ev("Start", "revision") ->
         [p EXCEPT !.state = "MostRecentRevision"]
    [] p.state = "Page" /\ e = Ev("Start", "title") ->
         [p EXCEPT !.state = "Title"]
    [] p.state = "MostRecentRevision" /\ e = Ev("Start", "text") ->
         [p EXCEPT !.state = "Text"]
    [] p.state = "MostRecentRevision" /\ e = Ev("End", "revision") ->
         LET c == Trim(p.content)
         IN  IF eq_debug /\ (p.src = <<>> \/ c = <<>>)
             THEN [p EXCEPT !.content = c, !.pc = "panicked"]
             ELSE IF Blacklisted(p.src) \/ IsRedirect(c)
             THEN [p EXCEPT !.content = c, !.state = "Ignore"]
             ELSE [p EXCEPT !.content = c, !.state = "Ignore",
                            !.article_map = InsertRecord(p.article_map, p.src, c)]
    [] p.state = "Title" /\ e.type = "Text" ->
         IF ValidUtf8(e.arg) THEN [p EXCEPT !.src = p.src \o e.arg]
         ELSE [p EXCEPT !.pc = "error"]
    [] p.state = "Title" /\ e = Ev("End", "title") ->
         [p EXCEPT !.state = "Page"]
    [] p.state = "Text" /\ e.type = "Text" ->
         IF ValidUtf8(e.arg) THEN [p EXCEPT !.content = p.content \o e.arg]
         ELSE [p EXCEPT !.pc = "error"]
    [] p.state = "Text" /\ e = Ev("End", "text") ->
         [p EXCEPT !.state = "MostRecentRevision"]
    [] e.type = "Eof" -> [p EXCEPT !.pc = "done"]
    [] OTHER -> p

\* One iteration of the loop of read_archive of src/inserter/src/main.rs.
inserter_step(p, e) ==
  IF p.pc # "reading" THEN p
  ELSE
  CASE p.state = "Ignore" /\ e = Ev("Start", "page") ->
         [p EXCEPT !.src = <<>>, !.content = <<>>, !.state = "Page"]
    [] p.state = "Page" /\ e = Ev("Start", "revision") ->
         [p EXCEPT !.state = "MostRecentRevision"]
    [] p.state = "Page" /\ e = Ev("Start", "title") ->
         [p EXCEPT !.state = "Title"]
    [] p.state = "MostRecentRevision" /\ e = Ev("Start", "text") ->
         [p EXCEPT !.state = "Text"]
    [] p.state = "MostRecentRevision" /\ e = Ev("End", "revision") ->
         LET c == Trim(p.content)
         IN  IF eq_debug /\ (p.src = <<>> \/ c = <<>>)
             THEN [p EXCEPT !.content = c, !.pc = "panicked"]
             ELSE [p EXCEPT !.content = c, !.state = "Ignore",
                            !.article_map = InsertRecord(p.article_map, p.src, c)]
    [] p.state = "Title" /\ e.type = "Text" ->
         IF eq_debug /\ p.src # <<>> THEN [p EXCEPT !.pc = "panicked"]
         ELSE IF ~ValidUtf8(e.arg) THEN [p EXCEPT !.pc = "error"]
         ELSE [p EXCEPT !.src = p.src \o e.arg,
                        !.state = IF Blacklisted(p.src \o e.arg)
                                  THEN "Ignore" ELSE "Title"]
    [] p.state = "Title" /\ e = Ev("End", "title") ->
         [p EXCEPT !.state = "Page"]
    [] p.state = "Text" /\ e.type = "Text" ->
         IF eq_debug /\ p.content # <<>> THEN [p EXCEPT !.pc = "panicked"]
         ELSE IF ~ValidUtf8(e.arg) THEN [p EXCEPT !.pc = "error"]
         ELSE [p EXCEPT !.content = p.content \o e.arg,
                        !.state = IF IsRedirect(p.content \o e.arg)
                                  THEN "Ignore" ELSE "Text"]
    [] p.state = "Text" /\ e = Ev("End", "text") ->
         [p EXCEPT !.state = "MostRecentRevision"]
    [] e.type = "Eof" -> [p EXCEPT !.pc = "done"]
    [] OTHER -> p

EQ_Init ==
  /\ crawler = ParserInit
  /\ inserter = ParserInit
  /\ eq_debug \in BOOLEAN

\* Both functions read the next event of the archive.
EQ_read_event ==
  /\ crawler.pc = "reading" \/ inserter.pc = "reading"
  /\ \E e \in DocEvents \ {EofEvent} :
       /\ DocStep(e)
       /\ crawler' = crawler_step(crawler, e)
       /\ inserter' = inserter_step(inserter, e)
  /\ UNCHANGED <<eq_debug, raVars, callVars, run2Vars, apiVars, amVars,
                 wpVars, pqVars, extButEq>>

\* Both functions read the end of the archive.
EQ_eof ==
  /\ crawler.pc = "reading" \/ inserter.pc = "reading"
  /\ crawler' = crawler_step(crawler, EofEvent)
  /\ inserter' = inserter_step(inserter, EofEvent)
  /\ UNCHANGED <<eq_debug, raVars, docVars, callVars, run2Vars, apiVars,
                 amVars, wpVars, pqVars, extButEq>>

EQ_Next == EQ_read_event \/ EQ_eof

InitEQ ==
  /\ AmIdle /\ WP_Idle /\ PQ_Idle /\ RA_Idle /\ API_Idle
  /\ LD_Idle /\ EQ_Init /\ RC_Idle /\ SV_Idle /\ LF_Idle

SpecEQ == InitEQ /\ [][EQ_Next]_vars

\* The names of a map and its links as pairs of names.
MapNames(m) == DOMAIN m.uuids
MapNameLinks(m) ==
  {q \in (DOMAIN m.uuids) \X (DOMAIN m.uuids) :
     m.uuids[q[1]] \in DOMAIN m.links /\ m.uuids[q[2]] \in m.links[m.uuids[q[1]]]}

\* C34: when both functions have stopped reading, either both returned a
\* map or neither did, and the maps returned have the same article names
\* and the same (source name, destination name) links.
C34_FilteringStrategiesEquivalent ==
  (crawler.pc \notin {"reading", "idle"} /\ inserter.pc \notin {"reading", "idle"})
    => /\ (crawler.pc = "done") = (inserter.pc = "done")
       /\ crawler.pc = "done" =>
            /\ MapNames(crawler.article_map) = MapNames(inserter.article_map)
            /\ MapNameLinks(crawler.article_map)
                 = MapNameLinks(inserter.article_map)

-----------------------------------------------------------------------------
\* retrying_client of src/src/util.rs (SpecRC); src/src/proc.rs has the same
\* loop.

\* The number of iterations of `for _ in 0..5`.
RETRY_ATTEMPTS == 5
\* The wait after a failed attempt, in seconds.
RETRY_SLEEP_SECS == 1

\* The errors client() can return.
ClientErrors == {"refused", "reset", "timeout"}

BaseIdle == AmIdle /\ WP_Idle /\ PQ_Idle /\ RA_Idle /\ API_Idle

RC_Init ==
  /\ rc_pc = "connect"
  /\ rc_attempts = 1
  /\ last_err = <<>>
  /\ rc_ret = [ok |-> FALSE, err |-> <<>>]
  /\ rc_log = <<>>
  /\ rc_slept = 0

RC_frame ==
  UNCHANGED <<amVars, wpVars, pqVars, raVars, docVars, callVars, run2Vars,
              apiVars, extButRc>>

\* client().await returns Ok(client): the client is returned at once.
RC_client_ok ==
  /\ rc_pc = "connect"
  /\ rc_log' = Append(rc_log, "ok")
  /\ rc_ret' = [ok |-> TRUE, err |-> <<>>]
  /\ rc_pc' = "returned"
  /\ UNCHANGED <<rc_attempts, last_err, rc_slept>>
  /\ RC_frame

\* A failed attempt that keeps the error of the first failure.
RC_client_err_keeps_first ==
  /\ rc_pc = "connect"
  /\ \E err \in ClientErrors :
       /\ rc_log' = Append(rc_log, err)
       /\ last_err' = IF last_err = <<>> THEN <<err>> ELSE last_err
  /\ rc_pc' = "sleep"
  /\ UNCHANGED <<rc_attempts, rc_ret, rc_slept>>
  /\ RC_frame

\* client().await returns Err(err): last_err = Some(err), then the sleep.
RC_client_err ==
  /\ rc_pc = "connect"
  /\ \E err \in ClientErrors :
       /\ rc_log' = Append(rc_log, err)
       /\ last_err' = <<err>>
  /\ rc_pc' = "sleep"
  /\ UNCHANGED <<rc_attempts, rc_ret, rc_slept>>
  /\ RC_frame

\* sleep(Duration::from_secs(1)).await returns; the loop goes on, or ends
\* after the last iteration with Err(last_err.unwrap()).
RC_sleep ==
  /\ rc_pc = "sleep"
  /\ rc_slept' = rc_slept + RETRY_SLEEP_SECS
  /\ IF rc_attempts < RETRY_ATTEMPTS
     THEN /\ rc_attempts' = rc_attempts + 1
          /\ rc_pc' = "connect"
          /\ UNCHANGED rc_ret
     ELSE /\ rc_ret' = [ok |-> FALSE, err |-> last_err]
          /\ rc_pc' = "returned"
          /\ UNCHANGED rc_attempts
  /\ UNCHANGED <<last_err, rc_log>>
  /\ RC_frame

RC_Next ==
  \/ RC_client_ok
  \/ RC_client_err
  \/ RC_sleep

InitRC == BaseIdle /\ LD_Idle /\ EQ_Idle /\ RC_Init /\ SV_Idle /\ LF_Idle

SpecRC == InitRC /\ [][RC_Next]_vars

\* C35: at most 5 attempts are made; only the last attempt made can have
\* succeeded; each failed attempt is followed by a wait of one second; the
\* function returns Ok exactly when an attempt succeeded, and otherwise
\* after 5 failures with the error of the fifth.
RC_failures == Cardinality({i \in DOMAIN rc_log : rc_log[i] # "ok"})
C35_RetryingClient ==
  /\ Len(rc_log) <= 5
  /\ \A i \in 1..(Len(rc_log) - 1) : rc_log[i] # "ok"
  /\ rc_pc \in {"connect", "returned"} => rc_slept = RC_failures
  /\ rc_pc = "sleep" => rc_slept = RC_failures - 1
  /\ rc_pc = "returned" =>
       /\ rc_ret.ok <=> rc_log[Len(rc_log)] = "ok"
       /\ ~rc_ret.ok => /\ Len(rc_log) = 5
                        /\ rc_ret.err = <<rc_log[5]>>

\* Four refused connections and a timeout: the timeout is returned after
\* five seconds of waiting.
C35_Witness ==
  /\ rc_pc = "returned"
  /\ rc_log = <<"refused", "refused", "refused", "refused", "timeout">>
  /\ rc_ret = [ok |-> FALSE, err |-> <<"timeout">>]
  /\ rc_slept = 5

-----------------------------------------------------------------------------
\* main() of src/src/crawler/main.rs and of src/src/explorer/main.rs with
\* the store process of Server (SpecSV).  A step that returns Err yields an
\* error named after the step and one of two kinds.

ErrKinds == {"io", "rpc"}
SvErr(step, kind) == <<step, kind>>
IsErr(result) == result \notin {<<"unset">>, <<"ok">>}

\* The steps of the job of the crawler, in order.
CrawlerJob == <<"retrying_client", "load_article_map", "insert_articles",
                "insert_links">>

SV_Init ==
  /\ sv_prog \in {"crawler", "explorer"}
  /\ sv_pc = "start"
  /\ sv_child = "none"
  /\ job_result = <<"unset">>
  /\ sys_result = <<"unset">>
  /\ stop_result = <<"unset">>
  /\ sv_ret = <<"unset">>
  /\ sv_stops = 0

SV_frame ==
  UNCHANGED <<amVars, wpVars, pqVars, raVars, docVars, callVars, run2Vars,
              apiVars, extButSv>>

\* Server::start()?: the store process is spawned, or main returns the error.
SV_start ==
  /\ sv_pc = "start"
  /\ \/ /\ sv_child' = "running"
        /\ sv_pc' = IF sv_prog = "crawler" THEN CrawlerJob[1] ELSE "bind"
        /\ UNCHANGED sv_ret
     \/ /\ \E k \in ErrKinds : sv_ret' = SvErr("start", k)
        /\ sv_pc' = "returned"
        /\ UNCHANGED sv_child
  /\ UNCHANGED <<sv_prog, job_result, sys_result, stop_result, sv_stops>>
  /\ SV_frame

\* A step of the async block of the crawler: its `?` ends the block with
\* the error, which becomes job_result; the last step ends it with Ok(()).
SV_job_step ==
  /\ sv_prog = "crawler"
  /\ \E i \in DOMAIN CrawlerJob :
       /\ sv_pc = CrawlerJob[i]
       /\ \/ /\ i < Len(CrawlerJob)
             /\ sv_pc' = CrawlerJob[i + 1]
             /\ UNCHANGED job_result
          \/ /\ i = Len(CrawlerJob)
             /\ sv_pc' = "stop"
             /\ job_result' = <<"ok">>
          \/ /\ \E k \in ErrKinds : job_result' = SvErr(CrawlerJob[i], k)
             /\ sv_pc' = "stop"
  /\ UNCHANGED <<sv_prog, sv_child, sys_result, stop_result, sv_ret, sv_stops>>
  /\ SV_frame

\* HttpServer::new(..).bind("127.0.0.1:8080")? of the explorer: on Err the
\* `?` returns from main.
SV_bind ==
  /\ sv_prog = "explorer" /\ sv_pc = "bind"
  /\ \/ /\ sv_pc' = "run"
        /\ UNCHANGED sv_ret
     \/ /\ \E k \in ErrKinds : sv_ret' = SvErr("bind", k)
        /\ sv_pc' = "returned"
  /\ UNCHANGED <<sv_prog, sv_child, job_result, sys_result, stop_result,
                 sv_stops>>
  /\ SV_frame

\* .run().await of the explorer: its Result is job_result.
SV_run ==
  /\ sv_prog = "explorer" /\ sv_pc = "run"
  /\ \/ job_result' = <<"ok">>
     \/ \E k \in ErrKinds : job_result' = SvErr("run", k)
  /\ sv_pc' = "sys"
  /\ UNCHANGED <<sv_prog, sv_child, sys_result, stop_result, sv_ret, sv_stops>>
  /\ SV_frame

\* sys.await of the explorer.
SV_sys ==
  /\ sv_prog = "explorer" /\ sv_pc = "sys"
  /\ \/ sys_result' = <<"ok">>
     \/ \E k \in ErrKinds : sys_result' = SvErr("sys", k)
  /\ sv_pc' = "stop"
  /\ UNCHANGED <<sv_prog, sv_child, job_result, stop_result, sv_ret, sv_stops>>
  /\ SV_frame

\* server.stop(): SIGTERM to the store process, then wait()?.
SV_stop ==
  /\ sv_pc = "stop"
  /\ sv_child' = "stopped"
  /\ sv_stops' = sv_stops + 1
  /\ \/ stop_result' = <<"ok">>
     \/ \E k \in ErrKinds : stop_result' = SvErr("stop", k)
  /\ sv_pc' = "return"
  /\ UNCHANGED <<sv_prog, job_result, sys_result, sv_ret>>
  /\ SV_frame

\* job_result?; sys_result?; stop_result?; Ok(())
SV_return ==
  /\ sv_pc = "return"
  /\ sv_ret' = CASE IsErr(job_result) -> job_result
                 [] IsErr(sys_result) -> sys_result
                 [] IsErr(stop_result) -> stop_result
                 [] OTHER -> <<"ok">>
  /\ sv_pc' = "returned"
  /\ UNCHANGED <<sv_prog, sv_child, job_result, sys_result, stop_result,
                 sv_stops>>
  /\ SV_frame

SV_Next ==
  \/ SV_start
  \/ SV_job_step
  \/ SV_bind
  \/ SV_run
  \/ SV_sys
  \/ SV_stop
  \/ SV_return

InitSV == BaseIdle /\ LD_Idle /\ EQ_Idle /\ RC_Idle /\ SV_Init /\ LF_Idle

SpecSV == InitSV /\ [][SV_Next]_vars

\* C36: when main has returned after Server::start succeeded, server.stop()
\* was called and the store process is stopped, and when the job returned
\* an error that error is what main returned.
C36_StoreReleasedOnEveryPath ==
  (sv_pc = "returned" /\ sv_child # "none") =>
     /\ sv_stops >= 1
     /\ sv_child = "stopped"
     /\ IsErr(job_result) => sv_ret = job_result

-----------------------------------------------------------------------------
\* The store after complete runs of run() of src/src/indexer.rs, and the
\* query of handle_article.  A vertex of the store is its id with the value
\* of its name property.

\* insert_articles with every batch acknowledged: a Vertex and its name
\* property for each entry of article_map.uuids.
bulk_insert_articles(store, u) ==
  store \cup {[id |-> u[n], name |-> n] : n \in DOMAIN u}

\* The store after the first and the second run over the archive.
StoreAfterTwoRuns ==
  bulk_insert_articles(bulk_insert_articles({}, uuids), uuids2)

\* VertexWithPropertyValueQuery::new("name", name)
VertexWithPropertyValue(store, name) == {v \in store : v.name = name}

\* C37: after two complete runs over the same archive the store holds
\* exactly one vertex whose name property is a given article name, as
\* handle_article asserts.
C37_OneVertexPerName ==
  (ra_pc = "done" /\ debug_build) =>
     \A n \in DOMAIN uuids :
        Cardinality(VertexWithPropertyValue(StoreAfterTwoRuns, n)) = 1


(***************************************************************************)
(* The links-file loader, src/src/main.rs: main reads ../data/links.txt    *)
(* twice, insert_articles building the table uuids and insert_links        *)
(* looking every line up in it.                                            *)
(***************************************************************************)
\* The file has up to MaxLines lines of up to MaxLineLen characters.
MaxLines == 3
MaxLineLen == 2

\* The characters of a line: the tab, and one other.
LfChars == {"\t", "a"}

LfLines == UNION {[1..n -> LfChars] : n \in 0..MaxLineLen}

LfFiles == UNION {[1..n -> LfLines] : n \in 0..MaxLines}

\* line.starts_with('\t')
starts_with_tab(line) == Len(line) > 0 /\ Head(line) = "\t"

\* &line[1..]
from_1(line) == Tail(line)

\* params.hash_length(16) of insert_articles
LF_hasher == [ParamsNew EXCEPT !.hash_length = 16]

\* Uuid::from_slice(hasher.hash(line.as_bytes()).as_bytes())
LF_uuid(line) == Blake2bUuid(LF_hasher, line)

\* The errors `?` returns from a pass: line? of the reader, and the
\* CapnpError of inserter.push and inserter.flush.
LfErr(pass, kind) == <<"Err", pass, kind>>

\* main is at the first line of insert_articles, of any file.
LF_Init ==
  /\ lf_file \in LfFiles
  /\ lf_pc = "insert_articles"
  /\ lf_pos = 1
  /\ lf_uuids = <<>>
  /\ lf_src_uuid = <<>>
  /\ lf_pushed = <<>>
  /\ lf_ret = <<"unset">>

LF_frame ==
  UNCHANGED <<amVars, wpVars, pqVars, raVars, docVars, callVars, run2Vars,
              apiVars, extButLf>>

\* The name insert_articles keeps of a line: one leading tab is removed.
LF_article_name(line) == IF starts_with_tab(line) THEN from_1(line) ELSE line

\* One iteration of the loop of insert_articles.
LF_insert_articles_line ==
  /\ lf_pc = "insert_articles"
  /\ lf_pos <= Len(lf_file)
  /\ LET line == LF_article_name(lf_file[lf_pos])
         uuid == LF_uuid(line)
         inserted == [n \in DOMAIN lf_uuids \cup {line} |->
                        IF n = line THEN uuid ELSE lf_uuids[n]]
     IN IF line \notin DOMAIN lf_uuids
        THEN \/ /\ lf_uuids' = inserted
                /\ lf_pushed' = lf_pushed \o <<<<"Vertex", uuid>>,
                                               <<"VertexProperty", uuid, line>>>>
                /\ lf_pos' = lf_pos + 1
                /\ UNCHANGED <<lf_pc, lf_ret>>
             \* the first push returns an error
             \/ /\ lf_uuids' = inserted
                /\ lf_pc' = "returned"
                /\ lf_ret' = LfErr("insert_articles", "push")
                /\ UNCHANGED <<lf_pushed, lf_pos>>
             \* the second push returns an error
             \/ /\ lf_uuids' = inserted
                /\ lf_pushed' = Append(lf_pushed, <<"Vertex", uuid>>)
                /\ lf_pc' = "returned"
                /\ lf_ret' = LfErr("insert_articles", "push")
                /\ UNCHANGED lf_pos
        ELSE /\ lf_pos' = lf_pos + 1
             /\ UNCHANGED <<lf_uuids, lf_pushed, lf_pc, lf_ret>>
  /\ UNCHANGED <<lf_file, lf_src_uuid>>
  /\ LF_frame

\* line? of either pass: the reader returns an error.
LF_read_err ==
  /\ lf_pc \in {"insert_articles", "insert_links"}
  /\ lf_pos <= Len(lf_file)
  /\ lf_ret' = LfErr(lf_pc, "line")
  /\ lf_pc' = "returned"
  /\ UNCHANGED <<lf_file, lf_pos, lf_uuids, lf_src_uuid, lf_pushed>>
  /\ LF_frame

\* The end of insert_articles: inserter.flush().await?, Ok(uuids); then
\* f.seek(SeekFrom::Start(0)) of main and the call of insert_links.
LF_insert_articles_end ==
  /\ lf_pc = "insert_articles"
  /\ lf_pos > Len(lf_file)
  /\ \/ /\ lf_pc' = "insert_links"
        /\ lf_pos' = 1
        /\ UNCHANGED lf_ret
     \/ /\ lf_pc' = "returned"
        /\ lf_ret' = LfErr("insert_articles", "flush")
        /\ UNCHANGED lf_pos
  /\ UNCHANGED <<lf_file, lf_uuids, lf_src_uuid, lf_pushed>>
  /\ LF_frame

\* src_uuid.unwrap() and the index uuids[..] panic.
LfPanic(what) == <<"panic", what>>

\* One iteration of the loop of insert_links.  The arguments of EdgeKey::new
\* are evaluated in order: src_uuid.unwrap(), then uuids[&line[1..]].
LF_insert_links_line ==
  /\ lf_pc = "insert_links"
  /\ lf_pos <= Len(lf_file)
  /\ LET line == lf_file[lf_pos]
     IN IF starts_with_tab(line)
        THEN IF lf_src_uuid = <<>>
             THEN /\ lf_pc' = "panicked"
                  /\ lf_ret' = LfPanic("src_uuid.unwrap()")
                  /\ UNCHANGED <<lf_pos, lf_src_uuid, lf_pushed>>
             ELSE IF from_1(line) \notin DOMAIN lf_uuids
             THEN /\ lf_pc' = "panicked"
                  /\ lf_ret' = LfPanic("uuids[&line[1..]]")
                  /\ UNCHANGED <<lf_pos, lf_src_uuid, lf_pushed>>
             ELSE \/ /\ lf_pushed' =
                          Append(lf_pushed, <<"Edge", lf_src_uuid[1], "link",
                                              lf_uuids[from_1(line)]>>)
                     /\ lf_pos' = lf_pos + 1
                     /\ UNCHANGED <<lf_pc, lf_ret, lf_src_uuid>>
                  \/ /\ lf_pc' = "returned"
                     /\ lf_ret' = LfErr("insert_links", "push")
                     /\ UNCHANGED <<lf_pos, lf_src_uuid, lf_pushed>>
        ELSE IF line \notin DOMAIN lf_uuids
             THEN /\ lf_pc' = "panicked"
                  /\ lf_ret' = LfPanic("uuids[&line]")
                  /\ UNCHANGED <<lf_pos, lf_src_uuid, lf_pushed>>
             ELSE /\ lf_src_uuid' = <<lf_uuids[line]>>
                  /\ lf_pos' = lf_pos + 1
                  /\ UNCHANGED <<lf_pc, lf_ret, lf_pushed>>
  /\ UNCHANGED <<lf_file, lf_uuids>>
  /\ LF_frame

\* The end of insert_links: inserter.flush().await?, Ok(()), and main returns.
LF_insert_links_end ==
  /\ lf_pc = "insert_links"
  /\ lf_pos > Len(lf_file)
  /\ lf_pc' = "returned"
  /\ \E r \in {<<"Ok">>, LfErr("insert_links", "flush")} : lf_ret' = r
  /\ UNCHANGED <<lf_file, lf_pos, lf_uuids, lf_src_uuid, lf_pushed>>
  /\ LF_frame

LF_Next ==
  \/ LF_insert_articles_line
  \/ LF_read_err
  \/ LF_insert_articles_end
  \/ LF_insert_links_line
  \/ LF_insert_links_end

InitLF == BaseIdle /\ LD_Idle /\ EQ_Idle /\ RC_Idle /\ SV_Idle /\ LF_Init

SpecLF == InitLF /\ [][LF_Next]_vars

\* C38: no lookup of insert_links fails, for any file: at every line
\* insert_links is about to process, a tab-prefixed line finds src_uuid set
\* and its name after the tab a key of uuids, and any other line is a key of
\* uuids.
C38_NoLookupFails ==
  (lf_pc = "insert_links" /\ lf_pos <= Len(lf_file)) =>
    LET line == lf_file[lf_pos]
    IN IF starts_with_tab(line)
       THEN lf_src_uuid # <<>> /\ from_1(line) \in DOMAIN lf_uuids
       ELSE line \in DOMAIN lf_uuids

(***************************************************************************)
(* Progress reporting of read_archive, src/src/indexer.rs.                 *)
(***************************************************************************)
\* A step of read_archive that reports.
Reports == last_article_map_len' # last_article_map_len

=============================================================================
